---- MODULE Spec2Model ----
(***************************************************************************)
(* Verification model of the position / equity simulation kernels of the   *)
(* DeepSignal back-test scripts:                                           *)
(*   forward_compound.py  (bar_exit, check_24h_exit, run)                  *)
(*   backtest.py          (bar_exit, run)                                  *)
(*   load_and_print.py    (_engine, the parameter scan of __main__)        *)
(*   daily_sma_cross.py   (simulate_trading, print_trade_results)          *)
(*   sma_cross_no_ai.py   (simulate_trading)                               *)
(*   45pair_sma.py        (metrics_from_returns)                           *)
(*   preselection.py      (check_sma_crossover)                            *)
(*   deepseek_signal.py   (get_signal), main.py (deepseek_signal)          *)
(*   sma_crossover_trading.py (consult_deepseek_for_regime_change,         *)
(*                             simulate_trading)                           *)
(* Prices, balances and percentages are Python floats in the source; they  *)
(* are modelled as exact rationals [n, d] in lowest terms with d > 0.      *)
(***************************************************************************)
EXTENDS Integers, Sequences, FiniteSets, TLC

VARIABLES
    mode,        \* which script this behaviour runs
    xcall,       \* exit evaluators: arguments of the last call
    xret,        \* exit evaluators: value returned by the last call
    fc,          \* forward_compound.run: locals of the loop
    eng,         \* load_and_print._engine: locals of the loop
    dsc,         \* daily_sma_cross.simulate_trading: locals of the loop
    sct,         \* sma_crossover_trading.simulate_trading: locals of the loop
    gs,          \* the signal providers: reply of the oracle and value returned
    bt,          \* backtest.run: locals of the loop
    pipe,        \* the __main__ pipelines on a series of n hourly bars
    rep,         \* the statistics step: function applied and its results
    grid,        \* the grid scan: the module globals and the workers
    csc,         \* check_sma_crossover: arguments and value returned
    bl           \* batch_loop: arguments, position vector, paired returns

vars == <<mode, xcall, xret, fc, eng, dsc, sct, gs, bt, pipe, rep, grid, csc, bl>>

(***************************************************************************)
(* Exact rational arithmetic (the model of Python float arithmetic).       *)
(***************************************************************************)
RECURSIVE Gcd(_, _)
Gcd(a, b) == IF b = 0 THEN a ELSE Gcd(b, a % b)

IAbs(i) == IF i < 0 THEN -i ELSE i

\* the fraction n/d in lowest terms with a positive denominator, given the
\* sign s of d and the common divisor g
NormBy(n, d, s, g) == [n |-> (s * n) \div g, d |-> (s * d) \div g]
Norm(n, d) == NormBy(n, d, IF d < 0 THEN -1 ELSE 1, Gcd(IAbs(n), IAbs(d)))

R(i) == [n |-> i, d |-> 1]
Frac(a, b) == Norm(a, b)
Lcm(a, b) == (a \div Gcd(a, b)) * b
\* x + y over the common denominator l
RAddOver(x, y, l) == Norm(x.n * (l \div x.d) + y.n * (l \div y.d), l)
RAdd(x, y) == RAddOver(x, y, Lcm(x.d, y.d))
RNeg(x) == [n |-> -x.n, d |-> x.d]
RSub(x, y) == RAdd(x, RNeg(y))
NonZero(g) == IF g = 0 THEN 1 ELSE g
\* x * y with a cancelled between x.n and y.d, b between y.n and x.d
RMulBy(x, y, a, b) == Norm((x.n \div a) * (y.n \div b), (x.d \div b) * (y.d \div a))
RMul(x, y) ==
    RMulBy(x, y, NonZero(Gcd(IAbs(x.n), y.d)), NonZero(Gcd(IAbs(y.n), x.d)))
RDiv(x, y) == RMul(x, Norm(y.d, y.n))
RAbs(x) == [n |-> IAbs(x.n), d |-> x.d]
RSign(x) == IF x.n > 0 THEN 1 ELSE IF x.n < 0 THEN -1 ELSE 0
RLe(x, y) == RSign(RSub(x, y)) <= 0
RLt(x, y) == RSign(RSub(x, y)) < 0
RGe(x, y) == RLe(y, x)
RGt(x, y) == RLt(y, x)
One == R(1)
Zero == R(0)

\* Python None in a float-valued slot
None == [n |-> 0, d |-> 0]

(***************************************************************************)
(* forward_compound.py : constants, bar_exit, check_24h_exit               *)
(***************************************************************************)
FC_SLIP == Frac(1, 10000)
MAX_HOLD_HOURS == 24

Pct(p) == RDiv(p, R(100))

FC_stop_px(slc) ==
    IF slc.side = "buy" THEN RMul(slc.entry_px, RSub(One, Pct(slc.stop)))
                        ELSE RMul(slc.entry_px, RAdd(One, Pct(slc.stop)))

FC_tgt_px(slc) ==
    IF slc.side = "buy" THEN RMul(slc.entry_px, RAdd(One, Pct(slc.target)))
                        ELSE RMul(slc.entry_px, RSub(One, Pct(slc.target)))

\* result of an exit check: px = None means (None, None)
NoExit == [px |-> None, hit_stop |-> FALSE]

\* variant: take-profit tested before stop-loss
FC_bar_exit_target_first(bar, slc) ==
    LET stop_px == FC_stop_px(slc)
        tgt_px  == FC_tgt_px(slc)
    IN  IF slc.side = "buy"
        THEN IF RGe(bar.high, tgt_px)
                THEN [px |-> RAdd(tgt_px, FC_SLIP), hit_stop |-> FALSE]
             ELSE IF RLe(bar.low, stop_px)
                THEN [px |-> RSub(stop_px, FC_SLIP), hit_stop |-> TRUE]
             ELSE NoExit
        ELSE IF RLe(bar.low, tgt_px)
                THEN [px |-> RSub(tgt_px, FC_SLIP), hit_stop |-> FALSE]
             ELSE IF RGe(bar.high, stop_px)
                THEN [px |-> RAdd(stop_px, FC_SLIP), hit_stop |-> TRUE]
             ELSE NoExit

\* variant: stop tested with < and > instead of <= and >=
FC_bar_exit_strict(bar, slc) ==
    LET stop_px == FC_stop_px(slc)
        tgt_px  == FC_tgt_px(slc)
    IN  IF slc.side = "buy"
        THEN IF RLt(bar.low, stop_px)
                THEN [px |-> RSub(stop_px, FC_SLIP), hit_stop |-> TRUE]
             ELSE IF RGe(bar.high, tgt_px)
                THEN [px |-> RAdd(tgt_px, FC_SLIP), hit_stop |-> FALSE]
             ELSE NoExit
        ELSE IF RGt(bar.high, stop_px)
                THEN [px |-> RAdd(stop_px, FC_SLIP), hit_stop |-> TRUE]
             ELSE IF RLe(bar.low, tgt_px)
                THEN [px |-> RSub(tgt_px, FC_SLIP), hit_stop |-> FALSE]
             ELSE NoExit

FC_bar_exit(bar, slc) ==
    LET stop_px == FC_stop_px(slc)
        tgt_px  == FC_tgt_px(slc)
    IN  IF slc.side = "buy"
        THEN IF RLe(bar.low, stop_px)
                THEN [px |-> RSub(stop_px, FC_SLIP), hit_stop |-> TRUE]
             ELSE IF RGe(bar.high, tgt_px)
                THEN [px |-> RAdd(tgt_px, FC_SLIP), hit_stop |-> FALSE]
             ELSE NoExit
        ELSE IF RGe(bar.high, stop_px)
                THEN [px |-> RAdd(stop_px, FC_SLIP), hit_stop |-> TRUE]
             ELSE IF RLe(bar.low, tgt_px)
                THEN [px |-> RSub(tgt_px, FC_SLIP), hit_stop |-> FALSE]
             ELSE NoExit

\* bar["open"] * (1 + SLIP if slc.side == "buy" else 1 - SLIP)
FC_time_px(bar, slc) ==
    RMul(bar.open, IF slc.side = "buy" THEN RAdd(One, FC_SLIP)
                                        ELSE RSub(One, FC_SLIP))

\* variant: the hold limit tested with > instead of >=
check_24h_exit_strict(bar, slc) ==
    IF bar.time - slc.birth_time > MAX_HOLD_HOURS
    THEN [px |-> FC_time_px(bar, slc), hit_stop |-> FALSE]
    ELSE NoExit

\* times are whole hours, so total_seconds() >= 24*3600 is hours >= 24
check_24h_exit(bar, slc) ==
    IF bar.time - slc.birth_time >= MAX_HOLD_HOURS
    THEN [px |-> FC_time_px(bar, slc), hit_stop |-> FALSE]
    ELSE NoExit

(***************************************************************************)
(* backtest.py : bar_exit                                                  *)
(***************************************************************************)
BT_SLIP == Frac(1, 10000)

BT_stop_px(side, stop, entry_px) ==
    IF side = "long" THEN RMul(entry_px, RAdd(One, Pct(stop)))
                     ELSE RMul(entry_px, RSub(One, Pct(stop)))

BT_tgt_px(side, target, entry_px) ==
    IF side = "long" THEN RMul(entry_px, RAdd(One, Pct(target)))
                     ELSE RMul(entry_px, RSub(One, Pct(target)))

\* returns (exit_px, exit_time, hit_stop); time = -1 stands for None
BT_NoExit == [px |-> None, time |-> -1, hit_stop |-> FALSE]

BT_bar_exit(bar, side, stop, target, entry_px) ==
    LET stop_px == BT_stop_px(side, stop, entry_px)
        tgt_px  == BT_tgt_px(side, target, entry_px)
    IN  IF side = "long"
        THEN IF RLe(bar.low, stop_px)
                THEN [px |-> RSub(stop_px, BT_SLIP), time |-> bar.time, hit_stop |-> TRUE]
             ELSE IF RGe(bar.high, tgt_px)
                THEN [px |-> RAdd(tgt_px, BT_SLIP), time |-> bar.time, hit_stop |-> FALSE]
             ELSE BT_NoExit
        ELSE IF RGe(bar.high, stop_px)
                THEN [px |-> RAdd(stop_px, BT_SLIP), time |-> bar.time, hit_stop |-> TRUE]
             ELSE IF RLe(bar.low, tgt_px)
                THEN [px |-> RSub(tgt_px, BT_SLIP), time |-> bar.time, hit_stop |-> FALSE]
             ELSE BT_NoExit

(***************************************************************************)
(* load_and_print.py : the stop test of _engine                            *)
(***************************************************************************)
\* st = entry*(1 - stop) if pos > 0 else entry*(1 + stop)
ENG_st(pos, entry, stop) ==
    IF RSign(pos) > 0 THEN RMul(entry, RSub(One, stop))
                      ELSE RMul(entry, RAdd(One, stop))

\* variant: the tests of the two sides exchanged
ENG_stop_hit_swapped(pos, entry, stop, r) ==
    LET st == ENG_st(pos, entry, stop)
    IN  \/ RSign(pos) > 0 /\ RGe(r.high, st)
        \/ RSign(pos) < 0 /\ RLe(r.low, st)

\* (pos > 0 and r.low <= st) or (pos < 0 and r.high >= st)
ENG_stop_hit(pos, entry, stop, r) ==
    LET st == ENG_st(pos, entry, stop)
    IN  \/ RSign(pos) > 0 /\ RLe(r.low, st)
        \/ RSign(pos) < 0 /\ RGe(r.high, st)

(***************************************************************************)
(* Exit evaluators applied to bounded inputs (mode "exit")                 *)
(***************************************************************************)
XPrices == {80, 90, 95, 100, 105, 110, 120}
XStops == {5, 10}
XTargets == {10, 20}
XTimes == {23, 24, 25}
XBars ==
    {[open |-> R(o), high |-> R(h), low |-> R(l), time |-> t] :
        <<o, h, l, t>> \in {q \in XPrices \X XPrices \X XPrices \X XTimes :
                               q[3] <= q[1] /\ q[1] <= q[2]}}
XEngStops == {Frac(1, 20), Frac(1, 10)}

NoCall == [fn |-> "none"]

XSlice(c) ==
    [uid |-> 0, side |-> c.side, entry_px |-> c.entry_px, stop |-> c.stop,
     target |-> c.target, birth_idx |-> 0, birth_time |-> c.birth_time]

Call_FC_bar_exit ==
    /\ mode = "exit"
    /\ xcall = NoCall
    /\ \E bar \in XBars, side \in {"buy", "sell"}, s \in XStops, t \in XTargets :
          LET c == [fn |-> "FC_bar_exit", side |-> side, pos |-> Zero,
                    entry_px |-> R(100), stop |-> R(s), target |-> R(t),
                    birth_time |-> 0, bar |-> bar]
          IN  /\ xcall' = c
              /\ xret' = FC_bar_exit(bar, XSlice(c))
    /\ UNCHANGED <<mode, fc, eng, dsc, sct, gs, bt, pipe, rep, grid, csc, bl>>

Call_check_24h_exit ==
    /\ mode = "exit"
    /\ xcall = NoCall
    /\ \E bar \in XBars, side \in {"buy", "sell"} :
          LET c == [fn |-> "check_24h_exit", side |-> side, pos |-> Zero,
                    entry_px |-> R(100), stop |-> R(5), target |-> R(10),
                    birth_time |-> 0, bar |-> bar]
          IN  /\ xcall' = c
              /\ xret' = check_24h_exit(bar, XSlice(c))
    /\ UNCHANGED <<mode, fc, eng, dsc, sct, gs, bt, pipe, rep, grid, csc, bl>>

Call_BT_bar_exit ==
    /\ mode = "exit"
    /\ xcall = NoCall
    /\ \E bar \in XBars, side \in {"long", "short"}, s \in XStops, t \in XTargets :
          LET c == [fn |-> "BT_bar_exit", side |-> side, pos |-> Zero,
                    entry_px |-> R(100), stop |-> R(s), target |-> R(t),
                    birth_time |-> 0, bar |-> bar]
              r == BT_bar_exit(bar, side, R(s), R(t), R(100))
          IN  /\ xcall' = c
              /\ xret' = [px |-> r.px, hit_stop |-> r.hit_stop]
    /\ UNCHANGED <<mode, fc, eng, dsc, sct, gs, bt, pipe, rep, grid, csc, bl>>

\* the stop test of _engine on one row: returns the STOP price or None
Call_ENG_stop ==
    /\ mode = "exit"
    /\ xcall = NoCall
    /\ \E bar \in XBars, sg \in {-1, 1}, s \in XEngStops :
          LET c == [fn |-> "ENG_stop", side |-> IF sg > 0 THEN "long" ELSE "short",
                    pos |-> R(sg), entry_px |-> R(100), stop |-> s, target |-> Zero,
                    birth_time |-> 0, bar |-> bar]
          IN  /\ xcall' = c
              /\ xret' = IF ENG_stop_hit(R(sg), R(100), s, bar)
                         THEN [px |-> ENG_st(R(sg), R(100), s), hit_stop |-> TRUE]
                         ELSE NoExit
    /\ UNCHANGED <<mode, fc, eng, dsc, sct, gs, bt, pipe, rep, grid, csc, bl>>

(***************************************************************************)
(* forward_compound.py : run (mode "fc")                                   *)
(***************************************************************************)
FC_FEE == Frac(7, 20000)
FC_CLOSED_TARGET == 20
MaxBarsFC == 3

FCPrices == {90, 100, 120}
FCGaps == {12, 24}
\* the first candle of the loop fixes the origin of the timestamps
FC_gaps(idx) == IF idx = 0 THEN {24} ELSE FCGaps
\* (open, high, low) of the candles the loop can meet
FCShapes ==
    {q \in FCPrices \X FCPrices \X FCPrices :
        /\ q[3] <= q[1] /\ q[1] <= q[2]
        /\ (q[1] = 100 \/ q[2] = 90)}

\* a target (in percent) that puts the target price of a long entered at an
\* open of 100 at 100.0099, SLIP below 100 * (1 + SLIP)
FC_NearTarget == Frac(3064, 360005)

\* what `get_signal(last50)` hands back: a tuple of len values
FC_Responses ==
    {[len |-> 4, action |-> "FLAT", stop |-> Zero, target |-> Zero],
     [len |-> 4, action |-> "BUY",  stop |-> R(5), target |-> R(5)],
     [len |-> 4, action |-> "SELL", stop |-> R(5), target |-> R(5)],
     [len |-> 4, action |-> "BUY",  stop |-> R(5), target |-> FC_NearTarget],
     [len |-> 3, action |-> "BUY",  stop |-> R(5), target |-> R(5)]}

lower(a) == CASE a = "BUY" -> "buy" [] a = "SELL" -> "sell" [] OTHER -> "flat"

\* bar_exit first, check_24h_exit only if bar_exit returned None
FC_exit(bar, slc) ==
    LET r == FC_bar_exit(bar, slc)
    IN  IF r.px = None THEN check_24h_exit(bar, slc) ELSE r

FC_exit_reason(bar, slc, r) ==
    IF r.hit_stop THEN "stop"
    ELSE IF r.px # FC_time_px(bar, slc) THEN "target"
    ELSE "24h_auto"

FC_pnl_pct(slc, exit_px) ==
    LET raw == RDiv(RSub(exit_px, slc.entry_px), slc.entry_px)
    IN  RSub(IF slc.side = "buy" THEN raw ELSE RNeg(raw), RMul(FC_FEE, R(2)))

FC_trade(bar, slc, r) ==
    [uid |-> slc.uid, open_t |-> slc.birth_time, close_t |-> bar.time,
     side |-> slc.side, entry |-> slc.entry_px, exit |-> r.px,
     hit_stop |-> r.hit_stop, exit_reason |-> FC_exit_reason(bar, slc, r),
     pnl_pct |-> FC_pnl_pct(slc, r.px),
     hold_hours |-> bar.time - slc.birth_time]

\* the slices of `exits`, in list order
FC_exits(bar, slices) == SelectSeq(slices, LAMBDA s : FC_exit(bar, s).px # None)
FC_kept(bar, slices) == SelectSeq(slices, LAMBDA s : FC_exit(bar, s).px = None)
FC_new_trades(bar, slices) ==
    LET ex == FC_exits(bar, slices)
    IN  [k \in 1..Len(ex) |-> FC_trade(bar, ex[k], FC_exit(bar, ex[k]))]

\* entry = bar["open"] * (1 + 5/3600/100)
FC_entry_px(bar) == RMul(bar.open, RAdd(One, Frac(5, 360000)))

\* variant: the provider is asked on every bar
FC_flat_always(slices) == TRUE

\* if not slices:
FC_flat(slices) == slices = <<>>

FCInit ==
    [pc |-> "loop", idx |-> 0,
     bar |-> [open |-> R(100), high |-> R(100), low |-> R(100), time |-> 0],
     slices |-> <<>>, trades |-> <<>>, closed_cnt |-> 0]

\* one iteration of `for idx in range(start, len(candles))`
FCStep ==
    /\ mode = "fc"
    /\ fc.pc = "loop"
    /\ fc.idx < MaxBarsFC
    /\ \E q \in FCShapes, gap \in FC_gaps(fc.idx), resp \in FC_Responses :
          LET bar    == [open |-> R(q[1]), high |-> R(q[2]), low |-> R(q[3]),
                         time |-> fc.bar.time + gap]
              kept   == FC_kept(bar, fc.slices)
              trades == fc.trades \o FC_new_trades(bar, fc.slices)
              closed == fc.closed_cnt + Len(FC_exits(bar, fc.slices))
              base   == [fc EXCEPT !.idx = fc.idx + 1, !.bar = bar,
                                   !.trades = trades, !.closed_cnt = closed]
          IN  IF ~FC_flat(kept)
              THEN \* not flat: the provider is not asked
                   /\ resp.action = "FLAT" /\ resp.len = 4
                   /\ fc' = [base EXCEPT !.slices = kept,
                                !.pc = IF closed >= FC_CLOSED_TARGET THEN "done" ELSE "loop"]
              ELSE IF resp.len # 4
              THEN \* action, stop, target, reason = ... raises ValueError
                   fc' = [base EXCEPT !.slices = kept, !.pc = "raised"]
              ELSE fc' = [base EXCEPT
                            !.slices =
                                IF resp.action # "FLAT"
                                THEN Append(kept,
                                       [uid |-> fc.idx, side |-> lower(resp.action),
                                        entry_px |-> FC_entry_px(bar),
                                        stop |-> resp.stop, target |-> resp.target,
                                        birth_idx |-> fc.idx, birth_time |-> bar.time])
                                ELSE kept,
                            !.pc = IF closed >= FC_CLOSED_TARGET THEN "done" ELSE "loop"]
    /\ UNCHANGED <<mode, xcall, xret, eng, dsc, sct, gs, bt, pipe, rep, grid, csc, bl>>

\* candles exhausted: the for loop ends and run() goes on to the report
FCExhausted ==
    /\ mode = "fc"
    /\ fc.pc = "loop"
    /\ fc.idx >= 1
    /\ fc' = [fc EXCEPT !.pc = "done"]
    /\ UNCHANGED <<mode, xcall, xret, eng, dsc, sct, gs, bt, pipe, rep, grid, csc, bl>>

(***************************************************************************)
(* load_and_print.py : _engine (mode "engine")                             *)
(***************************************************************************)
\* the windows of the two moving averages: FAST_MA, SLOW_MA
FAST_MA == 200
SLOW_MA == 50
MaxBarsENG == 4

ENGPrices == {1, 2, 3}
\* (low, close, high) of the daily rows, and the two moving-average columns
ENGShapes ==
    {q \in ENGPrices \X ENGPrices \X ENGPrices :
        q[1] <= q[2] /\ q[2] <= q[3] /\ q[3] - q[1] <= 1}
ENGFast == {0, 1, 2}
ENGSlow == {1}
\* keyword arguments lev, fee, stop of the call (cash keeps its default)
ENGParams ==
    {[lev |-> R(1), fee |-> Frac(1, 4), stop |-> Frac(1, 2)],
     [lev |-> R(1), fee |-> Zero,       stop |-> One],
     [lev |-> R(3), fee |-> Zero,       stop |-> One],
     [lev |-> R(3), fee |-> Frac(1, 4), stop |-> Frac(1, 2)]}
ENG_CASH == 100

ENG_rec(date, side, price, pnl, balance) ==
    [date |-> date, side |-> side, price |-> price, pnl |-> pnl, balance |-> balance]

\* variant: pnl - pnl*fee
ENG_net_signed(pnl, fee) == RSub(pnl, RMul(pnl, fee))

\* pnl - abs(pnl)*fee
ENG_net(pnl, fee) == RSub(pnl, RMul(RAbs(pnl), fee))

\* variant: the stopped position is not cleared
ENG_after_stop_keeps_pos(e, r) ==
    IF e.pos # Zero /\ ENG_stop_hit(e.pos, e.entry, e.stop, r)
    THEN LET st  == ENG_st(e.pos, e.entry, e.stop)
             pnl == RMul(e.pos, RSub(st, e.entry))
             bal == RAdd(e.balance, ENG_net(pnl, e.fee))
         IN  [e EXCEPT !.balance = bal,
                       !.trade_log = Append(@, ENG_rec(r.date, "STOP", st, pnl, bal)),
                       !.trades = @ + 1]
    ELSE e

\* step 1 of the loop body: the stop exit
ENG_after_stop(e, r) ==
    IF e.pos # Zero /\ ENG_stop_hit(e.pos, e.entry, e.stop, r)
    THEN LET st  == ENG_st(e.pos, e.entry, e.stop)
             pnl == RMul(e.pos, RSub(st, e.entry))
             bal == RAdd(e.balance, ENG_net(pnl, e.fee))
         IN  [e EXCEPT !.balance = bal,
                       !.trade_log = Append(@, ENG_rec(r.date, "STOP", st, pnl, bal)),
                       !.pos = Zero,
                       !.trades = @ + 1]
    ELSE e

\* step 2: prev_fast / prev_slow are the shifted columns (NaN on the first row)
ENG_sig(e, r) ==
    LET has_prev == e.i > 0
        cross_up == r.fast > r.slow /\ has_prev /\ e.r.fast <= e.r.slow
        cross_dn == r.fast < r.slow /\ has_prev /\ e.r.fast >= e.r.slow
    IN  IF cross_up THEN 1 ELSE IF cross_dn THEN -1 ELSE 0

\* variant: the old leg is left to be netted with the new one
ENG_after_close_netted(e, r) == e

\* variant: the EXIT record is put in front of the log
ENG_after_close_prepends(e, r) ==
    IF e.pos # Zero
    THEN LET pnl == RMul(e.pos, RSub(r.close, e.entry))
             bal == RAdd(e.balance, ENG_net(pnl, e.fee))
         IN  [e EXCEPT !.balance = bal,
                       !.trade_log = <<ENG_rec(r.date, "EXIT", r.close, pnl, bal)>> \o @,
                       !.trades = @ + 1]
    ELSE e

\* step 3, "close old"
ENG_after_close(e, r) ==
    IF e.pos # Zero
    THEN LET pnl == RMul(e.pos, RSub(r.close, e.entry))
             bal == RAdd(e.balance, ENG_net(pnl, e.fee))
         IN  [e EXCEPT !.balance = bal,
                       !.trade_log = Append(@, ENG_rec(r.date, "EXIT", r.close, pnl, bal)),
                       !.trades = @ + 1]
    ELSE e

\* variant: max_size = notional / r.close
ENG_max_size_gross(balance, lev, fee, close) == RDiv(RMul(balance, lev), close)

\* max_size = notional / (r.close * (1 + fee))
ENG_max_size(balance, lev, fee, close) ==
    RDiv(RMul(balance, lev), RMul(close, RAdd(One, fee)))

\* variant: the entry fee is not charged
ENG_after_open_free(e, r, sig) ==
    LET pos == RMul(R(sig), ENG_max_size(e.balance, e.lev, e.fee, r.close))
    IN  [e EXCEPT !.pos = pos, !.entry = r.close,
                  !.trade_log = Append(@, ENG_rec(r.date, "ENTRY", r.close, Zero, e.balance)),
                  !.trades = @ + 1]

\* step 3, the new leg
ENG_after_open(e, r, sig) ==
    LET pos == RMul(R(sig), ENG_max_size(e.balance, e.lev, e.fee, r.close))
        bal == RSub(e.balance, RMul(RAbs(RMul(pos, r.close)), e.fee))
    IN  [e EXCEPT !.pos = pos, !.entry = r.close, !.balance = bal,
                  !.trade_log = Append(@, ENG_rec(r.date, "ENTRY", r.close, Zero, bal)),
                  !.trades = @ + 1]

\* step 3: enter / flip
ENG_after_signal(e, r) ==
    LET sig == ENG_sig(e, r)
    IN  IF sig # 0 /\ RGt(e.balance, Zero)
        THEN ENG_after_open(ENG_after_close(e, r), r, sig)
        ELSE e

ENG_body(e, r) ==
    LET e1 == ENG_after_stop(e, r)
        e2 == ENG_after_signal(e1, r)
    IN  [e2 EXCEPT !.i = e.i + 1, !.r = r]

ENGInit(p) ==
    [pc |-> "loop", i |-> 0,
     r |-> [date |-> -1, low |-> One, close |-> One, high |-> One,
            fast |-> 1, slow |-> 1],
     pos |-> Zero, entry |-> None, balance |-> R(ENG_CASH), trades |-> 0,
     trade_log |-> <<>>, lev |-> p.lev, fee |-> p.fee, stop |-> p.stop,
     cash |-> R(ENG_CASH), summary |-> [final |-> None, trades |-> -1]]

\* one iteration of `for i, (date, r) in enumerate(daily.iterrows())`
ENGStep ==
    /\ mode = "engine"
    /\ eng.pc = "loop"
    /\ eng.i < MaxBarsENG
    /\ \E q \in ENGShapes, f \in ENGFast, sl \in ENGSlow :
          LET r == [date |-> eng.i, low |-> R(q[1]), close |-> R(q[2]),
                    high |-> R(q[3]), fast |-> f, slow |-> sl]
          IN  eng' = ENG_body(eng, r)
    /\ UNCHANGED <<mode, xcall, xret, fc, dsc, sct, gs, bt, pipe, rep, grid, csc, bl>>

\* rows exhausted: "final exit" and the summary
ENGFinal ==
    /\ mode = "engine"
    /\ eng.pc = "loop"
    /\ LET e == IF eng.pos # Zero
                THEN LET pnl == RMul(eng.pos, RSub(eng.r.close, eng.entry))
                         bal == RAdd(eng.balance, ENG_net(pnl, eng.fee))
                     IN  [eng EXCEPT !.balance = bal,
                            !.trade_log = Append(@, ENG_rec(eng.r.date, "FINAL_EXIT",
                                                            eng.r.close, pnl, bal)),
                            !.trades = @ + 1]
                ELSE eng
       IN  eng' = [e EXCEPT !.pc = "done",
                            !.summary = [final |-> e.balance, trades |-> e.trades]]
    /\ UNCHANGED <<mode, xcall, xret, fc, dsc, sct, gs, bt, pipe, rep, grid, csc, bl>>

(***************************************************************************)
(* daily_sma_cross.py : simulate_trading (mode "daily")                    *)
(* sma_cross_no_ai.py : simulate_trading is the same loop over hourly rows *)
(* (start 200, moving averages of 5 and 200 rows)                          *)
(***************************************************************************)
MaxBarsDSC == 3

DSCPrices == {1, 2, 3}
DSCSma19 == {0, 1, 2}
DSCSma29 == {1}
DSC_START == 10000
DSC_FIRST == 29

DSC_trade(d, type, t, price, pnl, eq) ==
    [type |-> type, side |-> "close", entry_time |-> d.entry_t, exit_time |-> t,
     entry_price |-> d.entry_p, exit_price |-> price, pnl_pct |-> RMul(pnl, R(100)),
     duration_days |-> t - d.entry_t, equity_after |-> eq]

\* max(max_dd, (peak - eq) / peak * 100)
DSC_dd(max_dd, peak, eq) ==
    LET dd == RMul(RDiv(RSub(peak, eq), peak), R(100))
    IN  IF RGt(dd, max_dd) THEN dd ELSE max_dd

RMax(x, y) == IF RGt(y, x) THEN y ELSE x

\* variant: a signal enters again in the direction already held
DSC_body_reenters(d, price, bull, bear) ==
    LET eq0  == d.equity[Len(d.equity)]
        peak == RMax(d.peak, eq0)
        mdd  == DSC_dd(d.max_dd, peak, eq0)
        d0   == [d EXCEPT !.peak = peak, !.max_dd = mdd, !.eq = eq0]
        side == IF bull THEN "long" ELSE "short"
        d1   ==
          IF (bull \/ bear) /\ d.pos \notin {"None", side}
          THEN LET pnl == IF d.pos = "short"
                          THEN RDiv(RSub(d.entry_p, price), d.entry_p)
                          ELSE RDiv(RSub(price, d.entry_p), d.entry_p)
                   eq  == RAdd(eq0, RMul(eq0, pnl))
               IN  [d0 EXCEPT !.eq = eq,
                       !.trades = Append(@, DSC_trade(d, d.pos, d.i, price, pnl, eq)),
                       !.equity = Append(@, eq),
                       !.pos = side, !.entry_p = price, !.entry_t = d.i]
          ELSE IF bull \/ bear
          THEN [d0 EXCEPT !.pos = side, !.entry_p = price, !.entry_t = d.i]
          ELSE [d0 EXCEPT !.equity = Append(@, eq0)]
    IN  [d1 EXCEPT !.daily_eq = Append(@, d1.eq), !.i = d.i + 1, !.price = price]

\* body of `for i in range(29, len(daily))` for the row (price, bull, bear)
DSC_body(d, price, bull, bear) ==
    LET eq0  == d.equity[Len(d.equity)]
        peak == RMax(d.peak, eq0)
        mdd  == DSC_dd(d.max_dd, peak, eq0)
        d0   == [d EXCEPT !.peak = peak, !.max_dd = mdd]
        d1   ==
          IF bull /\ d.pos # "long"
          THEN IF d.pos = "short"
               THEN LET pnl == RDiv(RSub(d.entry_p, price), d.entry_p)
                        eq  == RAdd(eq0, RMul(eq0, pnl))
                    IN  [d0 EXCEPT !.eq = eq,
                            !.trades = Append(@, DSC_trade(d, "short", d.i, price, pnl, eq)),
                            !.equity = Append(@, eq),
                            !.pos = "long", !.entry_p = price, !.entry_t = d.i]
               ELSE [d0 EXCEPT !.eq = eq0,
                            !.pos = "long", !.entry_p = price, !.entry_t = d.i]
          ELSE IF bear /\ d.pos # "short"
          THEN IF d.pos = "long"
               THEN LET pnl == RDiv(RSub(price, d.entry_p), d.entry_p)
                        eq  == RAdd(eq0, RMul(eq0, pnl))
                    IN  [d0 EXCEPT !.eq = eq,
                            !.trades = Append(@, DSC_trade(d, "long", d.i, price, pnl, eq)),
                            !.equity = Append(@, eq),
                            !.pos = "short", !.entry_p = price, !.entry_t = d.i]
               ELSE [d0 EXCEPT !.eq = eq0,
                            !.pos = "short", !.entry_p = price, !.entry_t = d.i]
          ELSE [d0 EXCEPT !.eq = eq0, !.equity = Append(@, eq0)]
    IN  [d1 EXCEPT !.daily_eq = Append(@, d1.eq), !.i = d.i + 1, !.price = price]

\* sma_19 / sma_29 hold the row before the current one (prev_sma_19, prev_sma_29)
DSCInit(s19) ==
    [pc |-> "loop", i |-> DSC_FIRST, price |-> One, sma_19 |-> s19, sma_29 |-> 1,
     pos |-> "None", entry_p |-> Zero, entry_t |-> -1,
     eq |-> None, equity |-> <<R(DSC_START)>>, trades |-> <<>>,
     peak |-> R(DSC_START), max_dd |-> Zero, daily_eq |-> <<>>]

DSCStep ==
    /\ mode = "daily"
    /\ dsc.pc = "loop"
    /\ dsc.i < DSC_FIRST + MaxBarsDSC
    /\ \E p \in DSCPrices, s19 \in DSCSma19, s29 \in DSCSma29 :
          LET bull == s19 > s29 /\ dsc.sma_19 <= dsc.sma_29
              bear == s19 < s29 /\ dsc.sma_19 >= dsc.sma_29
          IN  dsc' = [DSC_body(dsc, R(p), bull, bear) EXCEPT !.sma_19 = s19,
                                                             !.sma_29 = s29]
    /\ UNCHANGED <<mode, xcall, xret, fc, eng, sct, gs, bt, pipe, rep, grid, csc, bl>>

\* rows exhausted: "final exit"
DSCFinal ==
    /\ mode = "daily"
    /\ dsc.pc = "loop"
    /\ dsc' =
         IF dsc.pos # "None"
         THEN LET price == dsc.price
                  pnl   == IF dsc.pos = "long"
                           THEN RDiv(RSub(price, dsc.entry_p), dsc.entry_p)
                           ELSE RDiv(RSub(dsc.entry_p, price), dsc.entry_p)
                  eq    == RAdd(dsc.eq, RMul(dsc.eq, pnl))
              IN  [dsc EXCEPT !.pc = "done", !.eq = eq,
                       !.equity = Append(@, eq),
                       !.trades = Append(@, DSC_trade(dsc, dsc.pos, dsc.i - 1, price, pnl, eq)),
                       !.max_dd = DSC_dd(dsc.max_dd, dsc.peak, eq)]
         ELSE [dsc EXCEPT !.pc = "done"]
    /\ UNCHANGED <<mode, xcall, xret, fc, eng, sct, gs, bt, pipe, rep, grid, csc, bl>>

(***************************************************************************)
(* sma_crossover_trading.py : simulate_trading (mode "sct")                *)
(***************************************************************************)
MaxBarsSCT == 2

SCTPrices == {1, 2, 3}
\* (bullish_signals.iloc[i], bearish_signals.iloc[i]): at most one is True
SCTSignals == {"none", "bull", "bear"}
\* what the chat completion does: the stripped upper-cased answer, or an
\* exception ("NO" stands for every answer other than "YES")
SCTAnswers == {"YES", "NO", "error"}
SCT_START == 4800
SCT_EQUITY == 10000

\* try: return answer == "YES"   except Exception: return True
consult_deepseek_for_regime_change(answer) ==
    IF answer = "error" THEN TRUE ELSE answer = "YES"

SCT_trade(s, type, t, price, pnl_pct, pnl_dollar, eq) ==
    [type |-> type, entry_time |-> s.entry_time, exit_time |-> t,
     entry_price |-> s.entry_price, exit_price |-> price, pnl_pct |-> pnl_pct,
     pnl_dollar |-> pnl_dollar, duration_days |-> Frac(t - s.entry_time, 24),
     equity_after |-> eq]

\* "Close any existing short/long position" of the loop body
SCT_close(s, price, eq0) ==
    LET diff == IF s.current_position = "long"
                THEN RSub(price, s.entry_price) ELSE RSub(s.entry_price, price)
        pnl_pct    == RMul(RDiv(diff, s.entry_price), R(100))
        pnl_dollar == RMul(diff, RDiv(eq0, s.entry_price))
        eq   == RAdd(eq0, pnl_dollar)
        peak == RMax(s.peak_equity, eq)
        dd   == RMul(RDiv(RSub(peak, eq), peak), R(100))
    IN  [s EXCEPT !.equity_curve = Append(@, eq),
                  !.peak_equity = peak,
                  !.max_drawdown = RMax(@, dd),
                  !.trades = Append(@, SCT_trade(s, IF s.current_position = "long"
                                                    THEN "long_close" ELSE "short_close",
                                                 s.i, price, pnl_pct, pnl_dollar, eq))]

\* body of `for i in range(start_index, len(df))` for the row (price, sig)
\* when the chat completion answers `answer`
SCT_body(s, price, sig, answer) ==
    LET eq0     == s.equity_curve[Len(s.equity_curve)]
        want    == IF sig = "bull" /\ s.current_position # "long" THEN "long"
                   ELSE IF sig = "bear" /\ s.current_position # "short" THEN "short"
                   ELSE "None"
        asked   == want # "None"
        should_trade == asked /\ consult_deepseek_for_regime_change(answer)
        s0 == [s EXCEPT !.answer = IF asked THEN answer ELSE "none",
                        !.ai_consultations = IF asked THEN @ + 1 ELSE @,
                        !.ai_rejections = IF asked /\ ~should_trade THEN @ + 1 ELSE @]
        s1 == IF should_trade
              THEN LET c == IF s.current_position # "None"
                            THEN SCT_close(s0, price, eq0) ELSE s0
                   IN  [c EXCEPT !.current_position = want, !.entry_price = price,
                                 !.entry_time = s.i]
              ELSE s0
        cur == s1.equity_curve[Len(s1.equity_curve)]
        s2 == IF Len(s1.equity_curve) < s.i - SCT_START + 1
              THEN [s1 EXCEPT !.equity_curve = Append(@, cur)] ELSE s1
    IN  [s2 EXCEPT !.i = s.i + 1, !.price = price]

SCTInit ==
    [pc |-> "loop", i |-> SCT_START, price |-> One, answer |-> "none",
     current_position |-> "None", entry_price |-> Zero, entry_time |-> -1,
     equity_curve |-> <<R(SCT_EQUITY)>>, trades |-> <<>>,
     peak_equity |-> R(SCT_EQUITY), max_drawdown |-> Zero,
     ai_consultations |-> 0, ai_rejections |-> 0]

SCTStep ==
    /\ mode = "sct"
    /\ sct.pc = "loop"
    /\ sct.i < SCT_START + MaxBarsSCT
    /\ \E p \in SCTPrices, sig \in SCTSignals, a \in SCTAnswers :
          /\ sct' = SCT_body(sct, R(p), sig, a)
          \* DeepSeek is not consulted on this row: one transition only
          /\ sct'.answer = "none" => a = "NO"
    /\ UNCHANGED <<mode, xcall, xret, fc, eng, dsc, gs, bt, pipe, rep, grid, csc, bl>>

\* rows exhausted: "Close final position if still open"
SCTFinal ==
    /\ mode = "sct"
    /\ sct.pc = "loop"
    /\ sct' =
         IF sct.current_position # "None"
         THEN LET eq0  == sct.equity_curve[Len(sct.equity_curve)]
                  diff == IF sct.current_position = "long"
                          THEN RSub(sct.price, sct.entry_price)
                          ELSE RSub(sct.entry_price, sct.price)
                  pnl_pct    == RMul(RDiv(diff, sct.entry_price), R(100))
                  pnl_dollar == RMul(diff, RDiv(eq0, sct.entry_price))
                  eq == RAdd(eq0, pnl_dollar)
              IN  [sct EXCEPT !.pc = "done",
                       !.equity_curve = Append(@, eq),
                       !.trades = Append(@, SCT_trade(sct,
                                     IF sct.current_position = "long"
                                     THEN "long_close" ELSE "short_close",
                                     sct.i - 1, sct.price, pnl_pct, pnl_dollar, eq))]
         ELSE [sct EXCEPT !.pc = "done"]
    /\ UNCHANGED <<mode, xcall, xret, fc, eng, dsc, gs, bt, pipe, rep, grid, csc, bl>>

(***************************************************************************)
(* deepseek_signal.py : get_signal, main.py : deepseek_signal (mode "gs")  *)
(***************************************************************************)
\* JSON values of the fields of the reply; GS_Missing: the key is absent
JNum(x) == [t |-> "num", v |-> x]
JStr(x) == [t |-> "str", v |-> x]
JNull == [t |-> "null", v |-> Zero]
GS_Missing == [t |-> "missing", v |-> Zero]

\* the strings float() can parse, with their values
GS_Numerals == ("5" :> R(5)) @@ ("50" :> R(50))

\* float(v) of a JSON value
float(v) ==
    CASE v.t = "num" -> [exc |-> "", v |-> v.v]
      [] v.t = "str" /\ v.v \in DOMAIN GS_Numerals -> [exc |-> "", v |-> GS_Numerals[v.v]]
      [] v.t = "str" -> [exc |-> "ValueError", v |-> Zero]
      [] OTHER -> [exc |-> "TypeError", v |-> Zero]

\* what the chat completion does: api = "error" is an exception of the call;
\* raw is the kind of message.content: "none" (None), "empty" (nothing left
\* after the strips), "text" (not JSON), "array" (JSON, not an object) or
\* "object" with the three fields
GS_Reply(api, raw, action, stop, target) ==
    [api |-> api, raw |-> raw, action |-> action, stop |-> stop, target |-> target]
GS_Bare(api, raw) == GS_Reply(api, raw, GS_Missing, GS_Missing, GS_Missing)
GS_Actions == {JStr("BUY"), JStr("FLAT"), JStr("HOLD"), GS_Missing}
GS_Stops == {JNum(R(5)), JNum(R(50)), JStr("5"), JStr("tight"), JNull, GS_Missing}
GS_Targets == {JNum(R(10)), JNum(R(30)), GS_Missing}
GS_Replies ==
    {GS_Bare("error", "none"), GS_Bare("ok", "none"), GS_Bare("ok", "empty"),
     GS_Bare("ok", "text"), GS_Bare("ok", "array")}
    \cup {GS_Reply("ok", "object", a, st, tg) :
             a \in GS_Actions, st \in GS_Stops, tg \in GS_Targets}

GS_Raise(exc) ==
    [exc |-> exc, action |-> "", stop |-> Zero, target |-> Zero]
GS_Return(action, stop, target) ==
    [exc |-> "", action |-> action, stop |-> stop, target |-> target]

\* return obj["action"], float(obj["stop"]), float(obj["target"])
GS_fields(resp) ==
    IF resp.raw = "array" THEN GS_Raise("TypeError")
    ELSE IF resp.action = GS_Missing THEN GS_Raise("KeyError")
    ELSE IF resp.stop = GS_Missing THEN GS_Raise("KeyError")
    ELSE IF float(resp.stop).exc # "" THEN GS_Raise(float(resp.stop).exc)
    ELSE IF resp.target = GS_Missing THEN GS_Raise("KeyError")
    ELSE IF float(resp.target).exc # "" THEN GS_Raise(float(resp.target).exc)
    ELSE GS_Return(resp.action.v, float(resp.stop).v, float(resp.target).v)

get_signal(resp) ==
    IF resp.api = "error" THEN GS_Raise("APIError")
    ELSE IF resp.raw = "none" THEN GS_Raise("AttributeError")
    ELSE IF resp.raw = "empty" THEN GS_Return("FLAT", Zero, Zero)
    ELSE IF resp.raw = "text" THEN GS_Return("FLAT", Zero, Zero)
    ELSE GS_fields(resp)

\* main.py: json.loads is not guarded
deepseek_signal(resp) ==
    IF resp.api = "error" THEN GS_Raise("APIError")
    ELSE IF resp.raw = "none" THEN GS_Raise("AttributeError")
    ELSE IF resp.raw \in {"empty", "text"} THEN GS_Raise("JSONDecodeError")
    ELSE GS_fields(resp)

GSInit == [fn |-> "none", resp |-> GS_Bare("ok", "empty"), ret |-> GS_Raise("")]

Call_get_signal ==
    /\ mode = "gs"
    /\ gs.fn = "none"
    /\ \E resp \in GS_Replies :
          gs' = [fn |-> "get_signal", resp |-> resp, ret |-> get_signal(resp)]
    /\ UNCHANGED <<mode, xcall, xret, fc, eng, dsc, sct, bt, pipe, rep, grid, csc, bl>>

Call_deepseek_signal ==
    /\ mode = "gs"
    /\ gs.fn = "none"
    /\ \E resp \in GS_Replies :
          gs' = [fn |-> "deepseek_signal", resp |-> resp, ret |-> deepseek_signal(resp)]
    /\ UNCHANGED <<mode, xcall, xret, fc, eng, dsc, sct, bt, pipe, rep, grid, csc, bl>>

(***************************************************************************)
(* backtest.py : run (mode "bt")                                           *)
(***************************************************************************)
BT_FEE == Frac(7, 10000)
BT_TRADE_CAP == 10
\* candles in the file, and the length of the warm-up / history window (50 in
\* the source) scaled to the candles
MaxBarsBT == 3
WarmBarsBT == 1

\* (open, high, low) of the candles: the two shapes alternate along the file
BTShapes == <<<<100, 120, 90>>, <<90, 90, 90>>>>
\* the file: timestamps increase along the list
BTCandleLists ==
    {[k \in 1..MaxBarsBT |->
         LET q == BTShapes[((k + o) % 2) + 1]
         IN  [time |-> k, open |-> R(q[1]), high |-> R(q[2]), low |-> R(q[3])]] :
       o \in {0}}

\* replies of the oracle met by get_signal(last_50)
BT_Replies ==
    {GS_Reply("ok", "object", JStr("FLAT"), JNum(Zero), JNum(Zero)),
     GS_Reply("ok", "object", JStr("BUY"), JNum(R(5)), JNum(R(10))),
     GS_Reply("ok", "object", JStr("SELL"), JNum(R(50)), JNum(R(30))),
     GS_Reply("ok", "object", JStr("BUY"), JNum(Zero), JNum(R(10))),
     GS_Bare("error", "none")}

\* entry_px = cand["open"] * (1 + 5/3600/100)
BT_entry_px(cand) == RMul(cand.open, RAdd(One, Frac(5, 360000)))

\* (exit_px - entry_px) / entry_px * (1 if action == "BUY" else -1) - FEE
BT_pnl_pct(action, entry_px, exit_px) ==
    LET raw == RDiv(RSub(exit_px, entry_px), entry_px)
    IN  RSub(IF action = "BUY" THEN raw ELSE RNeg(raw), BT_FEE)

BT_trade(cand, sig, entry_px, r) ==
    [open_time |-> cand.time, close_time |-> r.time, side |-> sig.action,
     entry |-> entry_px, exit |-> r.px, stop |-> sig.stop, target |-> sig.target,
     hit_stop |-> r.hit_stop, pnl_pct |-> BT_pnl_pct(sig.action, entry_px, r.px)]

\* memo: the replies given so far, by history window (the provider is a
\* function of its argument); prev: the trades of the run before this one
BTInit(c) ==
    [pc |-> "shuffle", candles |-> c, order |-> c, i |-> 0, trades |-> <<>>,
     trade_count |-> 0, memo |-> {}, run |-> 1, prev |-> <<>>]

\* random.shuffle(candles); the loop then skips the warm-up indices
BTShuffle ==
    /\ mode = "bt"
    /\ bt.pc = "shuffle"
    /\ \E f \in Permutations(1..MaxBarsBT) :
          bt' = [bt EXCEPT !.order = [k \in 1..MaxBarsBT |-> bt.candles[f[k]]],
                           !.i = WarmBarsBT,
                           !.pc = "loop"]
    /\ UNCHANGED <<mode, xcall, xret, fc, eng, dsc, sct, gs, pipe, rep, grid, csc, bl>>

\* one iteration of `for i, cand in enumerate(candles)` with i past the warm-up
BTStep ==
    /\ mode = "bt"
    /\ bt.pc = "loop"
    /\ bt.i < MaxBarsBT
    /\ \E reply \in BT_Replies :
          LET cand    == bt.order[bt.i + 1]
              last_50 == SubSeq(bt.order, bt.i - WarmBarsBT + 1, bt.i)
              sig     == get_signal(reply)
              memo    == bt.memo \cup {<<last_50, reply>>}
              entry_px == BT_entry_px(cand)
              r       == BT_bar_exit(cand, lower(sig.action), sig.stop, sig.target,
                                     entry_px)
              trades  == IF r.px # None /\ r.px # Zero
                         THEN Append(bt.trades, BT_trade(cand, sig, entry_px, r))
                         ELSE bt.trades
          IN  /\ \A m \in bt.memo : m[1] = last_50 => m[2] = reply
              /\ bt' = IF sig.exc # ""
                       THEN [bt EXCEPT !.pc = "raised", !.memo = memo]
                       ELSE IF sig.action = "FLAT"
                       THEN [bt EXCEPT !.i = @ + 1, !.memo = memo]
                       ELSE [bt EXCEPT !.i = @ + 1, !.memo = memo,
                                       !.trade_count = @ + 1,
                                       !.trades = trades,
                                       !.pc = IF Len(trades) >= BT_TRADE_CAP
                                              THEN "done" ELSE "loop"]
    /\ UNCHANGED <<mode, xcall, xret, fc, eng, dsc, sct, gs, pipe, rep, grid, csc, bl>>

\* candles exhausted: the results are saved
BTExhausted ==
    /\ mode = "bt"
    /\ bt.pc = "loop"
    /\ bt.i = MaxBarsBT
    /\ bt' = [bt EXCEPT !.pc = "done"]
    /\ UNCHANGED <<mode, xcall, xret, fc, eng, dsc, sct, gs, pipe, rep, grid, csc, bl>>

\* the script is started once more on the same file with the same provider
BTRunAgain ==
    /\ mode = "bt"
    /\ bt.pc = "done"
    /\ bt.run = 1
    /\ bt' = [BTInit(bt.candles) EXCEPT !.memo = bt.memo, !.run = 2,
                                        !.prev = bt.trades]
    /\ UNCHANGED <<mode, xcall, xret, fc, eng, dsc, sct, gs, pipe, rep, grid, csc, bl>>

(***************************************************************************)
(* daily_sma_cross.py, sma_crossover_trading.py : load the series, compute *)
(* the crossovers, simulate (mode "pipe")                                  *)
(***************************************************************************)
DSC_NEED == 29 * 24
SCT_NEED == 4800
\* lengths of the hourly series
PipeLens == {0, 29, 30, 695, 696, 4799, 4800}

\* calculate_sma_crossovers(df): (daily, bull, bear); a short series comes
\* back as it is with bull = bear = None, a long one resampled to days
calculate_sma_crossovers(n) ==
    IF n < DSC_NEED THEN [rows |-> n, signals |-> "None"]
                    ELSE [rows |-> n \div 24, signals |-> "Series"]

\* calculate_200_day_sma(df): (df, bullish_cross, bearish_cross); a short
\* series comes back with two empty lists
calculate_200_day_sma(n) ==
    IF n < SCT_NEED THEN [rows |-> n, signals |-> "list"]
                    ELSE [rows |-> n, signals |-> "Series"]

PipeInit ==
    [pc |-> "start", script |-> "none", n |-> 0, rows |-> 0,
     signals |-> "unset", trades |-> <<>>]

PipeCompute ==
    /\ mode = "pipe"
    /\ pipe.pc = "start"
    /\ \E script \in {"daily", "sct"}, n \in PipeLens :
          LET c == IF script = "daily" THEN calculate_sma_crossovers(n)
                                       ELSE calculate_200_day_sma(n)
          IN  pipe' = [pipe EXCEPT !.pc = "computed", !.script = script, !.n = n,
                                   !.rows = c.rows, !.signals = c.signals]
    /\ UNCHANGED <<mode, xcall, xret, fc, eng, dsc, sct, gs, bt, rep, grid, csc, bl>>

\* sma_crossover_trading.main: bullish_signals.sum(), bearish_signals.sum()
PipeCount ==
    /\ mode = "pipe"
    /\ pipe.pc = "computed"
    /\ pipe.script = "sct"
    /\ pipe' = [pipe EXCEPT !.pc = IF pipe.signals = "Series"
                                   THEN "counted" ELSE "raised"]
    /\ UNCHANGED <<mode, xcall, xret, fc, eng, dsc, sct, gs, bt, rep, grid, csc, bl>>

\* simulate_trading up to the first test of the loop body: no row to visit
\* returns no trades; bull.iloc[i] needs a Series; otherwise the loop runs
PipeSimulate ==
    /\ mode = "pipe"
    /\ \/ pipe.script = "daily" /\ pipe.pc = "computed"
       \/ pipe.script = "sct" /\ pipe.pc = "counted"
    /\ LET first == IF pipe.script = "daily" THEN DSC_FIRST ELSE SCT_START
       IN  pipe' = [pipe EXCEPT !.pc = IF pipe.rows <= first THEN "done"
                                       ELSE IF pipe.signals # "Series" THEN "raised"
                                       ELSE "loop"]
    /\ UNCHANGED <<mode, xcall, xret, fc, eng, dsc, sct, gs, bt, rep, grid, csc, bl>>

(***************************************************************************)
(* The statistics of the reports: daily_sma_cross.print_trade_results, the *)
(* summary block of forward_compound.run, 45pair_sma.metrics_from_returns  *)
(* (the last in mode "stats")                                              *)
(***************************************************************************)
RECURSIVE SeqSum(_)
\* the sum of a series, taken by halves (exact arithmetic is associative)
SeqSum(q) ==
    IF q = <<>> THEN Zero
    ELSE IF Len(q) = 1 THEN q[1]
    ELSE LET h == Len(q) \div 2
         IN  RAdd(SeqSum(SubSeq(q, 1, h)), SeqSum(SubSeq(q, h + 1, Len(q))))

\* Series.mean() of a non-empty series
pd_mean(q) == RDiv(SeqSum(q), R(Len(q)))

\* Series.std(): the sample deviation (ddof = 1), kept as its square; NaN for
\* fewer than two values
pd_std(q) ==
    IF Len(q) < 2 THEN [k |-> "nan", var |-> Zero]
    ELSE LET m == pd_mean(q)
             d == [i \in 1..Len(q) |-> RMul(RSub(q[i], m), RSub(q[i], m))]
         IN  [k |-> "num", var |-> RDiv(SeqSum(d), R(Len(q) - 1))]

\* a float used as a condition: NaN is true, 0.0 is false
truthy(sd) == sd.k = "nan" \/ sd.var # Zero

\* float results: "num" stands for m / sqrt(var); sharpe and sortino hold the
\* ratio that print_trade_results and metrics_from_returns multiply by the
\* constant np.sqrt(365)
F_ZERO == [k |-> "num", m |-> Zero, var |-> One]
F_NAN == [k |-> "nan", m |-> Zero, var |-> One]
F_INF == [k |-> "inf", m |-> Zero, var |-> One]

\* mean / sd for sd # 0: NaN when sd is NaN
ratio(m, sd) ==
    IF sd.k = "nan" THEN F_NAN ELSE [k |-> "num", m |-> m, var |-> sd.var]

Negatives(q) == SelectSeq(q, LAMBDA x : RLt(x, Zero))

\* daily_equity: 10000 on the rows before the loop, then eq of every row
DSC_daily_equity(d) == [i \in 1..DSC_FIRST |-> R(DSC_START)] \o d.daily_eq

\* daily_equity.pct_change().dropna(): the first row and every 0/0 are NaN and
\* dropped (an equity of 0 stays 0, so x/0 with x # 0 does not arise)
pct_change(q) ==
    LET idx == SelectSeq([i \in 1..(Len(q) - 1) |-> i + 1], LAMBDA i : q[i - 1] # Zero)
    IN  [j \in 1..Len(idx) |-> RDiv(RSub(q[idx[j]], q[idx[j] - 1]), q[idx[j] - 1])]

\* daily: the series of returns the ratios are taken of
RepInit ==
    [fn |-> "none", exc |-> "", daily |-> <<>>, sharpe |-> F_ZERO, sortino |-> F_ZERO]

\* print_trade_results(trades, equity_curve, max_drawdown, daily_equity):
\* winners.max() / losers.min() of an empty array raise ValueError
print_trade_results(trades, daily_equity) ==
    IF trades = <<>>
    THEN [RepInit EXCEPT !.fn = "print_trade_results"]
    ELSE LET winners   == SelectSeq(trades, LAMBDA t : RGt(t.pnl_pct, Zero))
             losers    == SelectSeq(trades, LAMBDA t : RLe(t.pnl_pct, Zero))
             daily_ret == pct_change(daily_equity)
             sd        == pd_std(daily_ret)
             downside  == pd_std(Negatives(daily_ret))
         IN  [fn |-> "print_trade_results", daily |-> daily_ret,
              exc |-> IF winners = <<>> \/ losers = <<>> THEN "ValueError" ELSE "",
              sharpe |-> IF truthy(sd) THEN ratio(pd_mean(daily_ret), sd)
                         ELSE F_ZERO,
              sortino |-> IF truthy(downside)
                          THEN ratio(pd_mean(daily_ret), downside)
                          ELSE F_INF]

\* the summary block of forward_compound.run: df_trades["exit_reason"] of a
\* frame without columns raises KeyError; with trades the figures are printed
\* (NaN where a mean or deviation is undefined) and are not kept here
FC_summary(trades) ==
    IF trades = <<>>
    THEN [RepInit EXCEPT !.fn = "FC_summary", !.exc = "KeyError"]
    ELSE [RepInit EXCEPT !.fn = "FC_summary",
                         !.daily = [i \in 1..Len(trades) |-> trades[i].pnl_pct]]

MaxDaysMFR == 3
\* 1-bar returns of a day (one or two bars)
MFRBars == {Frac(-1, 2), Zero, One}
MFRDays == {<<a>> : a \in MFRBars} \cup {<<a, b>> : a, b \in MFRBars}
RECURSIVE MFRSeqs(_)
MFRSeqs(n) ==
    IF n = 0 THEN {<<>>}
    ELSE LET shorter == MFRSeqs(n - 1)
         IN  shorter \cup {Append(q, d) : q \in {s \in shorter : Len(s) = n - 1},
                                          d \in MFRDays}

RECURSIVE SeqProd(_)
SeqProd(q) == IF q = <<>> THEN One ELSE RMul(q[1], SeqProd(Tail(q)))

\* (1 + ret).resample('D').prod() - 1
MFR_daily(ret) ==
    [i \in 1..Len(ret) |->
        RSub(SeqProd([j \in 1..Len(ret[i]) |-> RAdd(One, ret[i][j])]), One)]

\* metrics_from_returns(ret): the keys sharpe and sortino of the dict
metrics_from_returns(ret) ==
    LET daily == MFR_daily(ret)
        sd    == pd_std(daily)
        downside == pd_std(Negatives(daily))
    IN  IF daily = <<>> \/ (sd.k = "num" /\ sd.var = Zero)
        THEN [RepInit EXCEPT !.fn = "metrics_from_returns", !.daily = daily]
        ELSE [fn |-> "metrics_from_returns", exc |-> "", daily |-> daily,
              sharpe |-> ratio(pd_mean(daily), sd),
              sortino |-> IF truthy(downside)
                          THEN ratio(pd_mean(daily), downside)
                          ELSE F_ZERO]

\* daily_sma_cross.__main__: print_trade_results(trades, eq_curve, dd, daily_eq)
DSCReport ==
    /\ mode = "daily"
    /\ dsc.pc = "done"
    /\ rep.fn = "none"
    /\ rep' = print_trade_results(dsc.trades, DSC_daily_equity(dsc))
    /\ UNCHANGED <<mode, xcall, xret, fc, eng, dsc, sct, gs, bt, pipe, grid, csc, bl>>

\* forward_compound.run after the loop
FCReport ==
    /\ mode = "fc"
    /\ fc.pc = "done"
    /\ rep.fn = "none"
    /\ rep' = FC_summary(fc.trades)
    /\ UNCHANGED <<mode, xcall, xret, fc, eng, dsc, sct, gs, bt, pipe, grid, csc, bl>>

Call_metrics_from_returns ==
    /\ mode = "stats"
    /\ rep.fn = "none"
    /\ \E ret \in MFRSeqs(MaxDaysMFR) : rep' = metrics_from_returns(ret)
    /\ UNCHANGED <<mode, xcall, xret, fc, eng, dsc, sct, gs, bt, pipe, grid, csc, bl>>

(***************************************************************************)
(* load_and_print.py : the grid scan of __main__ (mode "grid")             *)
(***************************************************************************)
\* the four grids (a few values of each)
GridFast == {200, 100, 50}
GridSlow == {45, 5}
GridStop == {Frac(1, 100)}
GridLev == {1, 5}
GridCombos ==
    {c \in [fast : GridFast, slow : GridSlow, stop : GridStop, lev : GridLev] :
        ~(c.fast <= c.slow)}
\* the workers that go through the combinations: 1 is the loop of the
\* script, 2 a second thread of the same loop
GridWorkers == {1, 2}

\* daily_copy: the columns of load_daily() and the two columns added for the
\* combination (named by their window)
Grid_columns(c) == {FAST_MA, SLOW_MA, c.fast, c.slow}

\* _engine(daily_copy, lev=lev, stop=stop) as far as its inputs go: the
\* column names come from the globals FAST_MA and SLOW_MA at the time of the
\* call; a name that is not a column raises KeyError, otherwise the summary
\* and the trade log are those of the loop over these two columns
Grid_engine(columns, fast_ma, slow_ma, stop, lev) ==
    IF {fast_ma, slow_ma} \subseteq columns
    THEN [exc |-> "", fast_col |-> fast_ma, slow_col |-> slow_ma,
          stop |-> stop, lev |-> lev]
    ELSE [exc |-> "KeyError", fast_col |-> fast_ma, slow_col |-> slow_ma,
          stop |-> stop, lev |-> lev]

GridNoCombo == [fast |-> 0, slow |-> 0, stop |-> Zero, lev |-> 0]
GridNoOut == [exc |-> "", fast_col |-> 0, slow_col |-> 0, stop |-> Zero, lev |-> 0]
GridInit ==
    [FAST_MA |-> FAST_MA, SLOW_MA |-> SLOW_MA,
     w |-> [k \in GridWorkers |->
              [pc |-> "next", combo |-> GridNoCombo, columns |-> {},
               out |-> GridNoOut]]]

\* FAST_MA, SLOW_MA, STOP_FRAC, LEVERAGE = fast, slow, stop, lev and the
\* building of daily_copy
GridSet(k) ==
    /\ mode = "grid"
    /\ grid.w[k].pc = "next"
    /\ \E c \in GridCombos :
          grid' = [grid EXCEPT !.FAST_MA = c.fast, !.SLOW_MA = c.slow,
                               !.w[k].pc = "call", !.w[k].combo = c,
                               !.w[k].columns = Grid_columns(c)]
    /\ UNCHANGED <<mode, xcall, xret, fc, eng, dsc, sct, gs, bt, pipe, rep, csc, bl>>

\* summary, trade_log = _engine(daily_copy, lev=lev, stop=stop)
GridCall(k) ==
    /\ mode = "grid"
    /\ grid.w[k].pc = "call"
    /\ grid' = [grid EXCEPT
                  !.w[k].pc = "done",
                  !.w[k].out = Grid_engine(grid.w[k].columns, grid.FAST_MA,
                                           grid.SLOW_MA, grid.w[k].combo.stop,
                                           grid.w[k].combo.lev)]
    /\ UNCHANGED <<mode, xcall, xret, fc, eng, dsc, sct, gs, bt, pipe, rep, csc, bl>>

(***************************************************************************)
(* preselection.py : check_sma_crossover (mode "presel")                   *)
(***************************************************************************)
MaxLenCSC == 4
\* the 'c' of the candles
CSCCloses == {1, 2, 3}
\* (short_period, long_period)
CSCPeriods == {<<1, 2>>, <<1, 3>>, <<2, 3>>}
RECURSIVE CSCLists(_)
CSCLists(n) ==
    IF n = 0 THEN {<<>>}
    ELSE LET shorter == CSCLists(n - 1)
         IN  shorter \cup {Append(q, R(c)) : q \in {s \in shorter : Len(s) = n - 1},
                                             c \in CSCCloses}

\* close_prices.rolling(window).mean().iloc[i - 1]: NaN (None) on the first
\* window - 1 rows
CSC_sma(close_prices, window, i) ==
    IF i < window THEN None
    ELSE pd_mean(SubSeq(close_prices, i - window + 1, i))

\* comparisons of floats: False when one side is NaN
FLe(x, y) == x # None /\ y # None /\ RLe(x, y)
FLt(x, y) == x # None /\ y # None /\ RLt(x, y)

\* variant: the previous values compared with < and >
check_sma_crossover_strict(candles, short_period, long_period) ==
    LET n == Len(candles)
        sma_short_current == CSC_sma(candles, short_period, n)
        sma_long_current  == CSC_sma(candles, long_period, n)
        sma_short_prev    == CSC_sma(candles, short_period, n - 1)
        sma_long_prev     == CSC_sma(candles, long_period, n - 1)
    IN  IF n < long_period THEN [exc |-> "", ret |-> FALSE]
        ELSE IF n < 2 THEN [exc |-> "IndexError", ret |-> FALSE]
        ELSE [exc |-> "",
              ret |-> \/ /\ FLt(sma_short_prev, sma_long_prev)
                         /\ FLt(sma_long_current, sma_short_current)
                      \/ /\ FLt(sma_long_prev, sma_short_prev)
                         /\ FLt(sma_short_current, sma_long_current)]

\* candles: the list of the closes; .iloc[-2] of a series of one row raises
check_sma_crossover(candles, short_period, long_period) ==
    LET n == Len(candles)
        sma_short_current == CSC_sma(candles, short_period, n)
        sma_long_current  == CSC_sma(candles, long_period, n)
        sma_short_prev    == CSC_sma(candles, short_period, n - 1)
        sma_long_prev     == CSC_sma(candles, long_period, n - 1)
    IN  IF n < long_period THEN [exc |-> "", ret |-> FALSE]
        ELSE IF n < 2 THEN [exc |-> "IndexError", ret |-> FALSE]
        ELSE [exc |-> "",
              ret |-> \/ /\ FLe(sma_short_prev, sma_long_prev)
                         /\ FLt(sma_long_current, sma_short_current)
                      \/ /\ FLe(sma_long_prev, sma_short_prev)
                         /\ FLt(sma_short_current, sma_long_current)]

CSCInit ==
    [fn |-> "none", candles |-> <<>>, short_period |-> 1, long_period |-> 2,
     exc |-> "", ret |-> FALSE]

Call_check_sma_crossover ==
    /\ mode = "presel"
    /\ csc.fn = "none"
    /\ \E candles \in CSCLists(MaxLenCSC), p \in CSCPeriods :
          LET r == check_sma_crossover(candles, p[1], p[2])
          IN  csc' = [fn |-> "check_sma_crossover", candles |-> candles,
                      short_period |-> p[1], long_period |-> p[2],
                      exc |-> r.exc, ret |-> r.ret]
    /\ UNCHANGED <<mode, xcall, xret, fc, eng, dsc, sct, gs, bt, pipe, rep, grid, bl>>

(***************************************************************************)
(* 45pair_sma.py : batch_loop, the position vector of one (fast, slow)     *)
(* pair (mode "batch")                                                     *)
(***************************************************************************)
MaxLenBL == 5
\* (f, s) of `pairs`: f < s
BLPairs == {<<1, 2>>, <<1, 3>>, <<2, 3>>}

\* close.rolling(w).mean().values: NaN (None) on the first w - 1 rows
BL_sma(close, w) ==
    [k \in 1..Len(close) |->
        IF k < w THEN None ELSE pd_mean(SubSeq(close, k - w + 1, k))]

\* variant: the array shifted the other way, np.roll(a, -1)
np_roll_back(a) ==
    IF a = <<>> THEN a ELSE SubSeq(a, 2, Len(a)) \o <<a[1]>>

\* np.roll(a, 1): every element moves one place up, the last one comes first
np_roll(a) ==
    IF a = <<>> THEN a ELSE <<a[Len(a)]>> \o SubSeq(a, 1, Len(a) - 1)

\* the cross flags `long` and `short`
BL_flags(close, f, s) ==
    LET sma_f == BL_sma(close, f)
        sma_s == BL_sma(close, s)
        rf    == np_roll(sma_f)
        rs    == np_roll(sma_s)
    IN  [long  |-> [k \in 1..Len(close) |->
                      FLt(sma_s[k], sma_f[k]) /\ FLe(rf[k], rs[k])],
         short |-> [k \in 1..Len(close) |->
                      FLt(sma_f[k], sma_s[k]) /\ FLe(rs[k], rf[k])]]

\* `state` after the iteration for bar i of `for i in range(1, n)`; bar i is
\* element i + 1 of the arrays
RECURSIVE BL_state(_, _)
BL_state(fl, i) ==
    IF i = 0 THEN 0
    ELSE IF fl.long[i + 1] THEN 1
    ELSE IF fl.short[i + 1] THEN -1
    ELSE BL_state(fl, i - 1)

\* pos = np.zeros(n); pos[i] = state
BL_pos(close, f, s) ==
    LET fl == BL_flags(close, f, s)
    IN  [k \in 1..Len(close) |-> BL_state(fl, k - 1)]

\* log_r: the return of a bar is a function of the closes before and at it
\* (log_r[0] = 0); strat_log_r = pos[:-1] * log_r[1:]
BL_strat(close, pos) ==
    LET log_r == [k \in 1..Len(close) |->
                    [from |-> close[IF k = 1 THEN 1 ELSE k - 1], to |-> close[k]]]
    IN  [k \in 1..(Len(close) - 1) |-> [pos |-> pos[k], log_r |-> log_r[k + 1]]]

BLInit == [fn |-> "none", close |-> <<>>, f |-> 1, s |-> 2, pos |-> <<>>,
           strat |-> <<>>]

\* one pass of `for f, s in pairs` over a close series
Call_batch_loop ==
    /\ mode = "batch"
    /\ bl.fn = "none"
    /\ \E close \in CSCLists(MaxLenBL), p \in BLPairs :
          LET pos == BL_pos(close, p[1], p[2])
          IN  bl' = [fn |-> "batch_loop", close |-> close, f |-> p[1], s |-> p[2],
                     pos |-> pos, strat |-> BL_strat(close, pos)]
    /\ UNCHANGED <<mode, xcall, xret, fc, eng, dsc, sct, gs, bt, pipe, rep, grid, csc>>

(***************************************************************************)
(* The specification: one behaviour runs one script                        *)
(***************************************************************************)
Init ==
    /\ xcall = NoCall
    /\ xret = NoExit
    /\ fc = FCInit
    /\ sct = SCTInit
    /\ gs = GSInit
    /\ pipe = PipeInit
    /\ rep = RepInit
    /\ grid = GridInit
    /\ csc = CSCInit
    /\ bl = BLInit
    /\ \/ mode \in {"exit", "fc", "sct", "gs", "pipe", "stats", "grid", "presel",
                    "batch"}
          /\ eng = ENGInit(CHOOSE p \in ENGParams : TRUE)
          /\ dsc = DSCInit(1)
          /\ bt = BTInit(CHOOSE c \in BTCandleLists : TRUE)
       \/ mode = "engine"
          /\ \E p \in ENGParams : eng = ENGInit(p)
          /\ dsc = DSCInit(1)
          /\ bt = BTInit(CHOOSE c \in BTCandleLists : TRUE)
       \/ mode = "daily"
          /\ eng = ENGInit(CHOOSE p \in ENGParams : TRUE)
          /\ \E s \in DSCSma19 : dsc = DSCInit(s)
          /\ bt = BTInit(CHOOSE c \in BTCandleLists : TRUE)
       \/ mode = "bt"
          /\ eng = ENGInit(CHOOSE p \in ENGParams : TRUE)
          /\ dsc = DSCInit(1)
          /\ \E c \in BTCandleLists : bt = BTInit(c)

Next ==
    \/ Call_FC_bar_exit
    \/ Call_check_24h_exit
    \/ Call_BT_bar_exit
    \/ Call_ENG_stop
    \/ FCStep
    \/ FCExhausted
    \/ ENGStep
    \/ ENGFinal
    \/ DSCStep
    \/ DSCFinal
    \/ SCTStep
    \/ SCTFinal
    \/ Call_get_signal
    \/ Call_deepseek_signal
    \/ BTShuffle
    \/ BTStep
    \/ BTExhausted
    \/ BTRunAgain
    \/ PipeCompute
    \/ PipeCount
    \/ PipeSimulate
    \/ DSCReport
    \/ FCReport
    \/ Call_metrics_from_returns
    \/ \E k \in GridWorkers : GridSet(k)
    \/ \E k \in GridWorkers : GridCall(k)
    \/ Call_check_sma_crossover
    \/ Call_batch_loop

Spec == Init /\ [][Next]_vars

(***************************************************************************)
(* Properties of the exit evaluators                                       *)
(***************************************************************************)
XIsBarExit == xcall.fn \in {"FC_bar_exit", "BT_bar_exit"}
XLong == xcall.side \in {"buy", "long"}
XStopPx ==
    CASE xcall.fn = "BT_bar_exit" -> BT_stop_px(xcall.side, xcall.stop, xcall.entry_px)
      [] xcall.fn = "ENG_stop"    -> ENG_st(xcall.pos, xcall.entry_px, xcall.stop)
      [] OTHER                    -> FC_stop_px(XSlice(xcall))
XTgtPx ==
    CASE xcall.fn = "BT_bar_exit" -> BT_tgt_px(xcall.side, xcall.target, xcall.entry_px)
      [] OTHER                    -> FC_tgt_px(XSlice(xcall))
XSlip == Frac(1, 10000)
\* the bar reaches the stop / the target of the position
XStopCond ==
    IF XLong THEN RLe(xcall.bar.low, XStopPx) ELSE RGe(xcall.bar.high, XStopPx)
XTgtCond ==
    IF XLong THEN RGe(xcall.bar.high, XTgtPx) ELSE RLe(xcall.bar.low, XTgtPx)
XFired == xret.px # None
XInBar(px) == RLe(xcall.bar.low, px) /\ RLe(px, xcall.bar.high)

\* C1: in both bar_exit functions a bar that satisfies the stop condition and
\* the target condition yields the stop exit (hit_stop, price derived from the
\* stop price); a target exit is returned only when the stop condition fails.
C1_StopBeforeTarget ==
    XIsBarExit =>
        /\ (XStopCond /\ XTgtCond) =>
              /\ xret.hit_stop
              /\ xret.px = IF XLong THEN RSub(XStopPx, XSlip) ELSE RAdd(XStopPx, XSlip)
        /\ (XFired /\ ~xret.hit_stop) => ~XStopCond

C1_Witness ==
    /\ xcall.fn = "FC_bar_exit"
    /\ XStopCond /\ XTgtCond
    /\ xret.hit_stop

\* C2: the trigger prices of both bar_exit functions are, long: stop =
\* entry*(1 - stop/100), target = entry*(1 + target/100); short: stop =
\* entry*(1 + stop/100), target = entry*(1 - target/100).
C2_TriggerPrices ==
    XIsBarExit =>
        /\ XStopPx = RMul(xcall.entry_px,
                          IF XLong THEN RSub(One, Pct(xcall.stop))
                                   ELSE RAdd(One, Pct(xcall.stop)))
        /\ XTgtPx = RMul(xcall.entry_px,
                         IF XLong THEN RAdd(One, Pct(xcall.target))
                                  ELSE RSub(One, Pct(xcall.target)))

\* C3 as stated: a stop or target exit is reported only if its trigger price
\* lies inside the bar, low <= trigger <= high.
C3_TriggerInsideBar ==
    (xcall.fn \in {"FC_bar_exit", "BT_bar_exit", "ENG_stop"} /\ XFired) =>
        XInBar(IF xret.hit_stop THEN XStopPx ELSE XTgtPx)

\* C3 amended: a stop or target exit is reported only if the bar reaches the
\* trigger price from the position's side (long stop / short target: low <=
\* trigger; short stop / long target: high >= trigger).
C3_TriggerReached ==
    (xcall.fn \in {"FC_bar_exit", "BT_bar_exit", "ENG_stop"} /\ XFired) =>
        IF xret.hit_stop THEN XStopCond ELSE XTgtCond

\* a stop that fires on a bar lying entirely beyond the stop price
C3_Witness ==
    /\ xcall.fn \in {"FC_bar_exit", "ENG_stop"}
    /\ XLong /\ xret.hit_stop
    /\ RLt(xcall.bar.high, XStopPx)

\* C5: every stop, target and time exit is priced against the trader: a long
\* closes strictly below the trigger price, a short strictly above it.
C5_SlippageAgainstTrader ==
    (xcall.fn \in {"FC_bar_exit", "BT_bar_exit", "check_24h_exit"} /\ XFired) =>
        LET trig == IF xcall.fn = "check_24h_exit" THEN xcall.bar.open
                    ELSE IF xret.hit_stop THEN XStopPx ELSE XTgtPx
        IN  IF XLong THEN RLt(xret.px, trig) ELSE RGt(xret.px, trig)

\* C4, evaluators: a long whose bar low equals the stop price, and a short
\* whose bar high equals it, is reported as a stop exit.
C4_Pure ==
    (xcall.fn \in {"FC_bar_exit", "ENG_stop"} /\
     IF XLong THEN xcall.bar.low = XStopPx ELSE xcall.bar.high = XStopPx) =>
        /\ XFired /\ xret.hit_stop
        /\ xret.px = CASE xcall.fn = "ENG_stop" -> XStopPx
                       [] XLong  -> RSub(XStopPx, XSlip)
                       [] OTHER  -> RAdd(XStopPx, XSlip)

ENGStepped == eng'.i = eng.i + 1
ENGNewLog == SubSeq(eng'.trade_log, Len(eng.trade_log) + 1, Len(eng'.trade_log))

\* C4, _engine: an open position whose row touches the stop price exactly gets
\* a STOP record for that row at the stop price.
C4_EngineStep ==
    (ENGStepped /\ eng.pos # Zero) =>
        LET st == IF RSign(eng.pos) > 0 THEN RMul(eng.entry, RSub(One, eng.stop))
                                        ELSE RMul(eng.entry, RAdd(One, eng.stop))
            touch == IF RSign(eng.pos) > 0 THEN eng'.r.low = st ELSE eng'.r.high = st
        IN  touch =>
              /\ ENGNewLog # <<>>
              /\ ENGNewLog[1].side = "STOP"
              /\ ENGNewLog[1].price = st
              /\ ENGNewLog[1].date = eng'.r.date

\* C4: the stop test is boundary-inclusive in forward_compound.bar_exit and in
\* load_and_print._engine.
C4_BoundaryInclusive == [](C4_Pure) /\ [][C4_EngineStep]_vars

C4_Witness ==
    /\ xcall.fn = "FC_bar_exit"
    /\ XLong /\ xcall.bar.low = XStopPx
    /\ xret.hit_stop

(***************************************************************************)
(* Properties of forward_compound.run                                      *)
(***************************************************************************)
FCStepped == fc'.idx = fc.idx + 1
FCNewTrades == SubSeq(fc'.trades, Len(fc.trades) + 1, Len(fc'.trades))
SeqRange(q) == {q[k] : k \in 1..Len(q)}

\* the bar reaches the stop or the target of the slice
FC_price_hit(bar, slc) ==
    IF slc.side = "buy"
    THEN RLe(bar.low, FC_stop_px(slc)) \/ RGe(bar.high, FC_tgt_px(slc))
    ELSE RGe(bar.high, FC_stop_px(slc)) \/ RLe(bar.low, FC_tgt_px(slc))

C6_Step ==
    FCStepped =>
        \A slc \in SeqRange(fc.slices) :
            LET bar == fc'.bar
                age == bar.time - slc.birth_time
                px  == RMul(bar.open, IF slc.side = "buy"
                                      THEN Frac(10001, 10000) ELSE Frac(9999, 10000))
            IN  ~FC_price_hit(bar, slc) =>
                  IF age >= 24
                  THEN /\ slc \notin SeqRange(fc'.slices)
                       /\ \E t \in SeqRange(FCNewTrades) :
                             /\ t.uid = slc.uid
                             /\ t.close_t = bar.time
                             /\ t.exit = px
                             /\ t.exit_reason = "24h_auto"
                             /\ t.hit_stop = FALSE
                  ELSE /\ slc \in SeqRange(fc'.slices)
                       /\ \A t \in SeqRange(FCNewTrades) : t.uid # slc.uid

\* C6: a slice aged >= 24h on a bar that hits neither its stop nor its target
\* is closed on that bar at open adjusted by slippage, recorded as '24h_auto'
\* with hit_stop false; a younger slice is never closed by the time rule.
C6_TimeExit == [][C6_Step]_vars

C6_Witness ==
    \E t \in SeqRange(fc.trades) :
        t.exit_reason = "24h_auto" /\ t.hold_hours = 24 /\ ~t.hit_stop

\* C7: when a run has ended no position is left open without a record: the
\* open position was closed at the last close and a record with its own exit
\* reason was appended (_engine, simulate_trading, forward_compound.run).
C7_NoOpenPositionAtEnd ==
    /\ (mode = "fc" /\ fc.pc = "done") => fc.slices = <<>>
    /\ (mode = "engine" /\ eng.pc = "done" /\ eng.pos # Zero) =>
          /\ eng.trade_log # <<>>
          /\ eng.trade_log[Len(eng.trade_log)].side = "FINAL_EXIT"
          /\ eng.trade_log[Len(eng.trade_log)].price = eng.r.close
    /\ (mode = "daily" /\ dsc.pc = "done" /\ dsc.pos # "None") =>
          /\ dsc.trades # <<>>
          /\ dsc.trades[Len(dsc.trades)].exit_price = dsc.price
          /\ "exit_reason" \in DOMAIN dsc.trades[Len(dsc.trades)]

(***************************************************************************)
(* Properties of load_and_print._engine                                    *)
(***************************************************************************)
\* balance before record k was appended
ENGPrevBal(k) == IF k = 1 THEN eng.cash ELSE eng.trade_log[k - 1].balance
ENGLast == eng.trade_log[Len(eng.trade_log)]
\* the row just processed opened a position
ENGLastIsEntry ==
    /\ eng.trade_log # <<>>
    /\ ENGLast.side = "ENTRY"
    /\ ENGLast.date = eng.r.date
ENGLastSig == IF eng.r.fast > eng.r.slow THEN 1 ELSE -1

\* C8 as stated: size = sig * (b * L) / p, and the entry fee |size * p| * fee
\* leaves the balance in the same step.
C8_SizeIsNotionalOverPrice ==
    ENGLastIsEntry =>
        LET b == ENGPrevBal(Len(eng.trade_log))
            p == ENGLast.price
        IN  /\ eng.pos = RMul(R(ENGLastSig), RDiv(RMul(b, eng.lev), p))
            /\ eng.balance = RSub(b, RMul(RAbs(RMul(eng.pos, p)), eng.fee))

\* C8 amended: size = sig * (b * L) / (p * (1 + fee)), and the entry fee
\* |size * p| * fee leaves the balance in the same step.
C8_SizeNetOfFee ==
    ENGLastIsEntry =>
        LET b == ENGPrevBal(Len(eng.trade_log))
            p == ENGLast.price
        IN  /\ p = eng.r.close /\ eng.entry = p
            /\ eng.pos = RMul(R(ENGLastSig),
                              RDiv(RMul(b, eng.lev), RMul(p, RAdd(One, eng.fee))))
            /\ eng.balance = RSub(b, RMul(RAbs(RMul(eng.pos, p)), eng.fee))
            /\ ENGLast.balance = eng.balance

C8_Witness ==
    /\ ENGLastIsEntry
    /\ eng.fee # Zero /\ eng.pos # Zero
    /\ Len(eng.trade_log) >= 2

\* C9: no ENTRY record is ever appended while the balance used for sizing is
\* <= 0, flips included.
C9_NoEntryOnNonPositiveBalance ==
    \A k \in 1..Len(eng.trade_log) :
        eng.trade_log[k].side = "ENTRY" => RGt(ENGPrevBal(k), Zero)

ENGCloses == {"STOP", "EXIT", "FINAL_EXIT"}

\* pnl and balance of a closing record, from the position held before the step
C10_CloseArith ==
    (ENGNewLog # <<>> /\ ENGNewLog[1].side \in ENGCloses) =>
        LET c == ENGNewLog[1]
            px == IF c.side = "STOP"
                  THEN RMul(eng.entry, IF RSign(eng.pos) > 0 THEN RSub(One, eng.stop)
                                                             ELSE RAdd(One, eng.stop))
                  ELSE eng'.r.close
        IN  /\ eng.pos # Zero
            /\ c.price = px
            /\ c.pnl = RMul(eng.pos, RSub(px, eng.entry))
            /\ c.balance = RSub(RAdd(eng.balance, c.pnl), RMul(RAbs(c.pnl), eng.fee))
            /\ \A k \in 2..Len(ENGNewLog) : ENGNewLog[k].side = "ENTRY"
            /\ Len(ENGNewLog) <= 2

\* the closed leg is gone: nothing, or a leg sized from the balance after the close
C10_LegGone ==
    (ENGNewLog # <<>> /\ ENGNewLog[1].side \in {"STOP", "EXIT"}) =>
        IF Len(ENGNewLog) = 1
        THEN ENGNewLog[1].side = "STOP" /\ eng'.pos = Zero
        ELSE /\ eng'.entry = eng'.r.close
             /\ RAbs(eng'.pos) =
                  RAbs(RDiv(RMul(ENGNewLog[1].balance, eng.lev),
                            RMul(eng'.r.close, RAdd(One, eng.fee))))

C10_FinalZero ==
    (ENGNewLog # <<>> /\ ENGNewLog[1].side = "FINAL_EXIT") => eng'.pos = Zero

\* C10 as stated: every close realises pnl = size * (exit - entry), moves the
\* balance by pnl - |pnl| * fee, and pos is 0 after STOP and FINAL_EXIT and the
\* new leg after EXIT.
C10_CloseAccounting == [][C10_CloseArith /\ C10_LegGone /\ C10_FinalZero]_vars

\* C10 amended: as above for STOP and EXIT; FINAL_EXIT books the close and
\* returns, the local pos keeps its value.
C10_CloseAccountingLoop ==
    [][/\ C10_CloseArith
       /\ C10_LegGone
       /\ (ENGNewLog # <<>> /\ ENGNewLog[1].side = "FINAL_EXIT") =>
              (eng'.pos = eng.pos /\ eng'.pc = "done")]_vars

C10_Witness ==
    /\ eng.pc = "done"
    /\ eng.trade_log # <<>>
    /\ ENGLast.side = "FINAL_EXIT"
    /\ eng.fee # Zero
    /\ \E k \in 1..Len(eng.trade_log) : eng.trade_log[k].side = "STOP"
    /\ \E k \in 1..Len(eng.trade_log) : eng.trade_log[k].side = "EXIT"

(***************************************************************************)
(* Flips: close the old leg, then open the new one                         *)
(***************************************************************************)
\* _engine: an ENTRY logged for a row on which a leg was still open (the row
\* did not stop it out) comes right after an EXIT record of the whole old leg
C11_EngineFlip ==
    (/\ ENGStepped /\ eng.pos # Zero /\ ENGNewLog # <<>>
     /\ ENGNewLog[1].side # "STOP"
     /\ ENGNewLog[Len(ENGNewLog)].side = "ENTRY") =>
        /\ Len(ENGNewLog) = 2
        /\ ENGNewLog[1].side = "EXIT"
        /\ ENGNewLog[1].date = ENGNewLog[2].date
        /\ ENGNewLog[1].price = eng'.r.close
        /\ ENGNewLog[1].pnl = RMul(eng.pos, RSub(eng'.r.close, eng.entry))
        /\ ENGNewLog[2].price = eng'.r.close
        /\ eng'.entry = eng'.r.close
        /\ RAbs(eng'.pos) =
             RAbs(RDiv(RMul(ENGNewLog[1].balance, eng.lev),
                       RMul(eng'.r.close, RAdd(One, eng.fee))))

\* daily_sma_cross.simulate_trading: an entry on row i while a leg was open
\* appends the closing record of that leg, exit_time = i at the row's close
C11_DailyFlip ==
    (dsc'.i = dsc.i + 1 /\ dsc.pos # "None" /\ dsc'.entry_t = dsc.i) =>
        /\ Len(dsc'.trades) = Len(dsc.trades) + 1
        /\ LET t == dsc'.trades[Len(dsc'.trades)]
           IN  /\ t.type = dsc.pos
               /\ t.entry_time = dsc.entry_t /\ t.entry_price = dsc.entry_p
               /\ t.exit_time = dsc.i /\ t.exit_price = dsc'.price
        /\ dsc'.pos \in {"long", "short"} \ {dsc.pos}
        /\ dsc'.entry_p = dsc'.price

\* sma_crossover_trading.simulate_trading: the same
C11_SctFlip ==
    (sct'.i = sct.i + 1 /\ sct.current_position # "None"
       /\ sct'.entry_time = sct.i) =>
        /\ Len(sct'.trades) = Len(sct.trades) + 1
        /\ LET t == sct'.trades[Len(sct'.trades)]
           IN  /\ t.type = IF sct.current_position = "long"
                           THEN "long_close" ELSE "short_close"
               /\ t.entry_time = sct.entry_time /\ t.entry_price = sct.entry_price
               /\ t.exit_time = sct.i /\ t.exit_price = sct'.price
        /\ sct'.current_position \in {"long", "short"} \ {sct.current_position}
        /\ sct'.entry_price = sct'.price

\* C11: when an entry is made while a position is open, the old leg is closed
\* first, in a record of its own with the same timestamp and the bar's close
\* as exit price, and the new leg is opened after it on the same bar; the two
\* legs are never netted (_engine and both simulate_trading loops).
C11_FlipClosesThenOpens == [][C11_EngineFlip /\ C11_DailyFlip /\ C11_SctFlip]_vars

C11_Witness ==
    /\ mode = "engine"
    /\ \E k \in 1..(Len(eng.trade_log) - 1) :
          /\ eng.trade_log[k].side = "EXIT"
          /\ eng.trade_log[k + 1].side = "ENTRY"
          /\ eng.trade_log[k].date = eng.trade_log[k + 1].date
          /\ eng.trade_log[k].pnl # Zero

\* one bar of forward_compound.run closes at most one slice, and asks the
\* provider (which may open a slice, or raise) only with no slice left open
C12_Step ==
    FCStepped =>
        /\ Len(FCNewTrades) <= 1
        /\ \A k \in 1..Len(fc'.slices) :
              fc'.slices[k].birth_idx = fc.idx =>
                  /\ Len(fc'.slices) = 1
                  /\ Len(FCNewTrades) = Len(fc.slices)
        /\ fc'.pc = "raised" => Len(FCNewTrades) = Len(fc.slices)

\* C12: in forward_compound.run at most one slice is open in every reachable
\* state: the provider is asked and a slice is opened only when no slice is
\* open, so a bar closes at most one slice.
C12_SinglePosition == [](Len(fc.slices) <= 1) /\ [][C12_Step]_vars

C12_Witness ==
    /\ mode = "fc"
    /\ Len(fc.slices) = 1
    /\ fc.slices[1].birth_idx + 1 < fc.idx
    /\ fc.trades # <<>>

(***************************************************************************)
(* Conservation of currency in load_and_print._engine                      *)
(***************************************************************************)
\* what a record moves: a close its pnl less fee * |pnl|, an entry the fee on
\* the notional |size * entry price| of the leg it opens
C13_Delta(rec, size) ==
    IF rec.side = "ENTRY"
    THEN RNeg(RMul(eng.fee, RAbs(RMul(size, rec.price))))
    ELSE RSub(rec.pnl, RMul(eng.fee, RAbs(rec.pnl)))

\* every record appended by a step carries the running balance, and the
\* balance moves by nothing else
C13_Step ==
    /\ ENGNewLog = <<>> => eng'.balance = eng.balance
    /\ ENGNewLog # <<>> =>
          /\ ENGNewLog[1].balance =
                RAdd(eng.balance, C13_Delta(ENGNewLog[1], eng'.pos))
          /\ \A k \in 2..Len(ENGNewLog) :
                ENGNewLog[k].balance =
                    RAdd(ENGNewLog[k - 1].balance, C13_Delta(ENGNewLog[k], eng'.pos))
          /\ eng'.balance = ENGNewLog[Len(ENGNewLog)].balance
    /\ \A k \in 1..Len(ENGNewLog) :
          /\ ENGNewLog[k].side = "ENTRY" => (k = Len(ENGNewLog) /\ ENGNewLog[k].pnl = Zero)
          /\ ENGNewLog[k].side # "ENTRY" => ENGNewLog[k].side \in ENGCloses

C13_Running ==
    /\ eng.balance = IF eng.trade_log = <<>> THEN eng.cash ELSE ENGLast.balance
    /\ eng.pc = "done" => eng.summary.final = eng.balance

\* C13: in _engine the balance starts at cash and moves only by pnl - fee*|pnl|
\* at each close and by -fee*|size * entry price| at each entry, so it equals
\* cash + sum(pnl) - fee*sum(|pnl|) - fee*sum(|size*entry price|); each
\* trade_log record stores that running value, and summary['final'] is the
\* balance of the last record, or cash when there is none.
C13_Conservation == [](C13_Running) /\ [][C13_Step]_vars

C13_Witness ==
    /\ mode = "engine" /\ eng.pc = "done"
    /\ eng.fee # Zero
    /\ Len(eng.trade_log) >= 3
    /\ eng.summary.final = ENGLast.balance
    /\ eng.summary.final # eng.cash

(***************************************************************************)
(* Properties of the signal providers                                      *)
(***************************************************************************)
GSNumeric(v) == v.t = "num" \/ (v.t = "str" /\ v.v \in {"5", "50"})
\* the reply is a JSON object with a known action and numeric stop and target
GSWellFormed(resp) ==
    /\ resp.raw = "object"
    /\ resp.action \in {JStr("BUY"), JStr("SELL"), JStr("FLAT")}
    /\ GSNumeric(resp.stop)
    /\ GSNumeric(resp.target)
GSFlat == [exc |-> "", action |-> "FLAT", stop |-> Zero, target |-> Zero]

\* C17: for every reply of the oracle that is empty, not JSON, or JSON that
\* lacks or garbles action, stop or target, get_signal returns
\* ("FLAT", 0, 0) and does not raise.
C17_MalformedIsFlat ==
    (gs.fn = "get_signal" /\ gs.resp.api = "ok" /\ ~GSWellFormed(gs.resp)) =>
        gs.ret = GSFlat

(***************************************************************************)
(* Properties of the simulation loops: time, order, determinism            *)
(***************************************************************************)
\* C14: in every trade record of backtest.run, simulate_trading
\* (daily_sma_cross) and forward_compound.run the entry time is strictly
\* earlier than the exit time, bar timestamps being strictly increasing.
C14_EntryBeforeExit ==
    /\ \A k \in 1..Len(bt.trades) : bt.trades[k].open_time < bt.trades[k].close_time
    /\ \A k \in 1..Len(dsc.trades) : dsc.trades[k].entry_time < dsc.trades[k].exit_time
    /\ \A k \in 1..Len(fc.trades) : fc.trades[k].open_t < fc.trades[k].close_t

\* backtest.run: the candle of this iteration is later than the candle of
\* the iteration before and than every candle of its history window
C15_BTStep ==
    (bt.pc = "loop" /\ bt'.i = bt.i + 1) =>
        \A k \in (bt.i - WarmBarsBT + 1)..bt.i :
            bt.order[k].time < bt.order[bt.i + 1].time

\* C15: bars are processed one at a time in strictly increasing timestamp
\* order, and the history window handed to the signal provider holds only
\* bars that precede the current bar in time (backtest.run,
\* forward_compound.run).
C15_Chronological ==
    [][C15_BTStep /\ (FCStepped => fc'.bar.time > fc.bar.time)]_vars

\* C16: two runs of backtest.run on the same candles with the same
\* deterministic provider end with identical trade records.
C16_Deterministic ==
    (mode = "bt" /\ bt.run = 2 /\ bt.pc = "done") => bt.trades = bt.prev

C18_InRange(stop, target) ==
    /\ RLe(Frac(1, 2), stop) /\ RLe(stop, R(10))
    /\ RLe(One, target) /\ RLe(target, R(20))

\* C18: every position that is opened carries a stop_pct within [0.5, 10]
\* and a target_pct within [1, 20], whatever the provider returned:
\* get_signal hands out clamped values, and the slices of
\* forward_compound.run and the trades of backtest.run hold clamped values.
C18_Clamped ==
    /\ (gs.fn = "get_signal" /\ gs.ret.exc = "" /\ gs.ret.action # "FLAT") =>
          C18_InRange(gs.ret.stop, gs.ret.target)
    /\ \A k \in 1..Len(fc.slices) :
          C18_InRange(fc.slices[k].stop, fc.slices[k].target)
    /\ \A k \in 1..Len(bt.trades) :
          C18_InRange(bt.trades[k].stop, bt.trades[k].target)

\* C19, simulate_trading: a row on which the consultation failed leaves the
\* position, its entry and the trade list as they were
C19_SctStep ==
    (sct'.i = sct.i + 1 /\ sct'.answer = "error") =>
        /\ sct'.current_position = sct.current_position
        /\ sct'.entry_time = sct.entry_time
        /\ sct'.trades = sct.trades
        /\ sct'.pc = "loop"

\* C19: when the call to the oracle fails, the step behaves as if the
\* decision were FLAT: get_signal returns ("FLAT", 0, 0) without raising, and
\* simulate_trading opens or flips no position on that bar and goes on.
C19_FailureIsFlat ==
    /\ []((gs.fn = "get_signal" /\ gs.resp.api = "error") => gs.ret = GSFlat)
    /\ [][C19_SctStep]_vars

(***************************************************************************)
(* Properties of the pipelines on short series                             *)
(***************************************************************************)
\* C20: on a series shorter than the lookback of the script (daily_sma_cross:
\* 29*24 hourly bars, sma_crossover_trading: 4800 bars) the pipeline "compute
\* crossovers, then simulate" does not raise and ends with zero trades.
C20_ShortSeriesNoTrades ==
    (pipe.pc # "start" /\
     pipe.n < (IF pipe.script = "daily" THEN 29 * 24 ELSE 4800)) =>
        /\ pipe.pc # "raised"
        /\ pipe.pc # "loop"
        /\ pipe.trades = <<>>

(***************************************************************************)
(* Liquidation in load_and_print._engine                                   *)
(***************************************************************************)
\* C21: as soon as the balance of _engine is <= the liquidation threshold at
\* the end of a row, the run ends at that row: no further row is processed.
\* Stated for the lowest threshold, 0 (a balance <= 0 is <= every threshold).
C21_LiquidationEndsRun ==
    [][(mode = "engine" /\ eng.pc = "loop" /\ eng.i > 0 /\ RLe(eng.balance, Zero))
          => ~ENGStepped]_vars

(***************************************************************************)
(* Drawdown of the simulate_trading loops                                  *)
(***************************************************************************)
RECURSIVE C22_Peak(_, _)
\* the running peak: the highest of the first k equity values
C22_Peak(curve, k) ==
    IF k = 1 THEN curve[1] ELSE RMax(C22_Peak(curve, k - 1), curve[k])

RECURSIVE C22_MaxDD(_, _)
\* the highest (running peak - equity) / running peak, in percent, over the
\* first k equity values
C22_MaxDD(curve, k) ==
    LET peak == C22_Peak(curve, k)
        dd   == RMul(RDiv(RSub(peak, curve[k]), peak), R(100))
    IN  IF k = 1 THEN dd ELSE RMax(C22_MaxDD(curve, k - 1), dd)

C22_Sct ==
    (mode = "sct" /\ sct.pc = "done") =>
        sct.max_drawdown = C22_MaxDD(sct.equity_curve, Len(sct.equity_curve))
C22_Daily ==
    (mode = "daily" /\ dsc.pc = "done") =>
        dsc.max_dd = C22_MaxDD(dsc.equity, Len(dsc.equity))

\* C22: when simulate_trading has ended, max_drawdown is the maximum, over all
\* equity values the run produced (the one after the final forced close
\* included), of (running peak - equity) / running peak, taken in percent as
\* the code stores it (sma_crossover_trading and daily_sma_cross).
C22_DrawdownIsMax == C22_Sct /\ C22_Daily

(***************************************************************************)
(* Properties of the statistics of the reports                             *)
(***************************************************************************)
\* the call computed Sharpe and Sortino of the series rep.daily
C23_Computed ==
    \/ rep.fn = "metrics_from_returns"
    \/ rep.fn = "print_trade_results" /\ dsc.trades # <<>> /\ rep.exc = ""

\* C23: Sharpe is 0 whenever the standard deviation of the daily returns is
\* zero or undefined, Sortino is +infinity whenever no daily return is
\* negative, and neither is ever NaN (daily_sma_cross.print_trade_results,
\* 45pair_sma.metrics_from_returns).
C23_RatioSentinels ==
    C23_Computed =>
        /\ ~truthy(pd_std(rep.daily)) \/ pd_std(rep.daily).k = "nan"
              => (rep.sharpe.k = "num" /\ rep.sharpe.m = Zero)
        /\ Negatives(rep.daily) = <<>> => rep.sortino = F_INF
        /\ rep.sharpe.k # "nan"
        /\ rep.sortino.k # "nan"

\* an empty trade list, only winning trades, or only losing trades
C24_Degenerate(trades) ==
    \/ \A k \in 1..Len(trades) : RGt(trades[k].pnl_pct, Zero)
    \/ \A k \in 1..Len(trades) : RLt(trades[k].pnl_pct, Zero)

\* C24: on an empty trade list, on only winning trades and on only losing
\* trades the statistics step of a completed run finishes without raising
\* (daily_sma_cross.print_trade_results, the summary of forward_compound.run).
C24_ReportNeverRaises ==
    /\ (rep.fn = "print_trade_results" /\ C24_Degenerate(dsc.trades)) => rep.exc = ""
    /\ (rep.fn = "FC_summary" /\ C24_Degenerate(fc.trades)) => rep.exc = ""

(***************************************************************************)
(* Configuration of load_and_print._engine                                 *)
(***************************************************************************)
\* a fast lookback >= the slow lookback, or a negative fee
C25_Malformed == FAST_MA >= SLOW_MA \/ RLt(eng.fee, Zero)

\* C25: _engine called with a malformed configuration (fast lookback >= slow
\* lookback, negative fee) ends in an error at setup: no row is processed and
\* no record is appended.
C25_RejectedAtSetup ==
    (mode = "engine" /\ C25_Malformed) =>
        /\ eng.i = 0
        /\ eng.trade_log = <<>>
        /\ eng.pc # "done"

(***************************************************************************)
(* Isolation of the runs of the grid scan                                  *)
(***************************************************************************)
\* what _engine produces for the combination when its run is the only one
C26_Alone(c) == Grid_engine(Grid_columns(c), c.fast, c.slow, c.stop, c.lev)

\* C26: the summary and trade log that _engine produces for a combination
\* (fast, slow, stop, leverage) are those of the run executed alone, also when
\* runs for other combinations are interleaved with it.
C26_RunsAreIsolated ==
    \A k \in GridWorkers :
        grid.w[k].pc = "done" => grid.w[k].out = C26_Alone(grid.w[k].combo)

(***************************************************************************)
(* Properties of check_sma_crossover                                       *)
(***************************************************************************)
RECURSIVE C27_Sum(_, _, _)
\* the sum of the closes (integers) of candles a..b
C27_Sum(q, a, b) == IF b < a THEN 0 ELSE q[b].n + C27_Sum(q, a, b - 1)

\* sign of (short SMA - long SMA) at candle i, both averages being defined
\* there: the sums are compared after cross-multiplying by the periods
C27_Diff(q, s, l, i) == C27_Sum(q, i - s + 1, i) * l - C27_Sum(q, i - l + 1, i) * s

\* a crossover between the previous and the most recent candle: both averages
\* exist on both candles, and the short one went from <= to > the long one, or
\* from >= to <
C27_Crossover(q, s, l) ==
    LET n == Len(q)
    IN  /\ n - 1 >= l
        /\ \/ C27_Diff(q, s, l, n - 1) <= 0 /\ C27_Diff(q, s, l, n) > 0
           \/ C27_Diff(q, s, l, n - 1) >= 0 /\ C27_Diff(q, s, l, n) < 0

C28_StopHit(bar, slc) ==
    IF slc.side = "buy" THEN RLe(bar.low, FC_stop_px(slc))
                        ELSE RGe(bar.high, FC_stop_px(slc))

\* price of the price-based exit of a slice whose stop or target the bar hits
C28_Price(bar, slc) ==
    IF C28_StopHit(bar, slc)
    THEN IF slc.side = "buy" THEN RSub(FC_stop_px(slc), FC_SLIP)
                             ELSE RAdd(FC_stop_px(slc), FC_SLIP)
    ELSE IF slc.side = "buy" THEN RAdd(FC_tgt_px(slc), FC_SLIP)
                             ELSE RSub(FC_tgt_px(slc), FC_SLIP)

\* the record of a slice that is 24 hours old or older and whose stop or
\* target the bar hits: price and flag of the price-based exit
C28_PriceStep ==
    FCStepped =>
        \A slc \in SeqRange(fc.slices) :
            (fc'.bar.time - slc.birth_time >= 24 /\ FC_price_hit(fc'.bar, slc)) =>
                \E t \in SeqRange(FCNewTrades) :
                    /\ t.uid = slc.uid
                    /\ t.exit = C28_Price(fc'.bar, slc)
                    /\ t.hit_stop = C28_StopHit(fc'.bar, slc)

\* ... and its reason
C28_ReasonStep ==
    FCStepped =>
        \A slc \in SeqRange(fc.slices) :
            (fc'.bar.time - slc.birth_time >= 24 /\ FC_price_hit(fc'.bar, slc)) =>
                \E t \in SeqRange(FCNewTrades) :
                    /\ t.uid = slc.uid
                    /\ t.exit_reason = IF C28_StopHit(fc'.bar, slc)
                                       THEN "stop" ELSE "target"

\* C28: in forward_compound.run a slice that is older than 24 hours and whose
\* stop or target is hit on a bar is recorded with the price-based exit, its
\* price and its reason, never with the time exit.
C28_PriceExitFirst == [][C28_PriceStep /\ C28_ReasonStep]_vars

(***************************************************************************)
(* One closing record per closed position in load_and_print._engine        *)
(***************************************************************************)
\* the row of this step reaches the stop of the position held before it
C29_Stopped ==
    /\ eng.pos # Zero
    /\ IF RSign(eng.pos) > 0
       THEN RLe(eng'.r.low, RMul(eng.entry, RSub(One, eng.stop)))
       ELSE RGe(eng'.r.high, RMul(eng.entry, RAdd(One, eng.stop)))

\* a position stopped on the row gets its STOP record and no EXIT; whatever
\* else the row appends is the ENTRY of a new position
C29_Step ==
    /\ (ENGStepped /\ C29_Stopped) =>
          /\ ENGNewLog # <<>>
          /\ ENGNewLog[1].side = "STOP"
          /\ ENGNewLog[1].date = eng'.r.date
          /\ \A k \in 2..Len(ENGNewLog) : ENGNewLog[k].side = "ENTRY"
          /\ Len(ENGNewLog) <= 2
    /\ eng'.trades = eng.trades + Len(ENGNewLog)
    /\ Cardinality({k \in 1..Len(ENGNewLog) : ENGNewLog[k].side \in ENGCloses}) <= 1

\* every closing record closes the position opened by the record before it
C29_ClosedOnce ==
    \A k \in 1..Len(eng.trade_log) :
        eng.trade_log[k].side \in ENGCloses =>
            (k > 1 /\ eng.trade_log[k - 1].side = "ENTRY")

\* C29: in _engine a position closed by its stop on a bar produces exactly one
\* closing record for that bar: the EXIT of the same bar is applied only to a
\* position that was not stopped on it, no position is closed twice, and the
\* trade counter moves by one per closure.
C29_OneClosePerPosition == [](C29_ClosedOnce) /\ [][C29_Step]_vars

\* a stop and a crossover on the same row: STOP, then the ENTRY of the new leg
C29_Witness ==
    /\ mode = "engine"
    /\ \E k \in 1..(Len(eng.trade_log) - 1) :
          /\ eng.trade_log[k].side = "STOP"
          /\ eng.trade_log[k + 1].side = "ENTRY"
          /\ eng.trade_log[k].date = eng.trade_log[k + 1].date

\* the loop of forward_compound.run or of backtest.run was left by an exception
C30_EndedByException == fc.pc = "raised" \/ bt.pc = "raised"

\* the records never exceed the cap of their loop
C30_CapRespected ==
    /\ Len(fc.trades) <= FC_CLOSED_TARGET
    /\ fc.closed_cnt <= FC_CLOSED_TARGET
    /\ Len(bt.trades) <= BT_TRADE_CAP

\* C30: the loops of forward_compound.run and backtest.run end only because
\* the candles are exhausted or because the cap is reached (never by an
\* exception), and the number of recorded trades never exceeds the cap (20
\* closed slices, 10 trades).
C30_EndsByExhaustionOrCap == ~C30_EndedByException /\ C30_CapRespected

\* the log after the step starts with the log before it
C31_AppendOnly ==
    /\ Len(eng'.trade_log) >= Len(eng.trade_log)
    /\ SubSeq(eng'.trade_log, 1, Len(eng.trade_log)) = eng.trade_log
    /\ Len(fc'.trades) >= Len(fc.trades)
    /\ SubSeq(fc'.trades, 1, Len(fc.trades)) = fc.trades

\* the timestamps do not decrease along the log
C31_Ordered ==
    /\ \A k \in 1..(Len(eng.trade_log) - 1) :
          eng.trade_log[k].date <= eng.trade_log[k + 1].date
    /\ \A k \in 1..(Len(fc.trades) - 1) :
          /\ fc.trades[k].close_t <= fc.trades[k + 1].close_t
          /\ fc.trades[k].open_t <= fc.trades[k + 1].open_t

\* C31: every step of load_and_print._engine and of forward_compound.run only
\* appends records to the trade log, leaves the records already there
\* unchanged, and the timestamps of the records never decrease along the log.
C31_AppendOnlyOrdered == [](C31_Ordered) /\ [][C31_AppendOnly]_vars

\* a log that grew over several rows: a flip (EXIT and ENTRY of one date)
\* followed by a record of a later row
C31_Witness ==
    /\ mode = "engine"
    /\ \E k \in 1..(Len(eng.trade_log) - 2) :
          /\ eng.trade_log[k].side = "EXIT"
          /\ eng.trade_log[k + 1].date = eng.trade_log[k].date
          /\ eng.trade_log[k + 2].date > eng.trade_log[k].date

(***************************************************************************)
(* The exit_reason of the records of forward_compound.run                  *)
(***************************************************************************)
\* the check that closes the slice on the bar: bar_exit tests the stop, then
\* the target; check_24h_exit is asked when neither fired
C32_Check(bar, slc) ==
    IF C28_StopHit(bar, slc) THEN "stop"
    ELSE IF FC_price_hit(bar, slc) THEN "target"
    ELSE "24h_auto"

C32_Step ==
    FCStepped =>
        \A t \in SeqRange(FCNewTrades) :
            \E slc \in SeqRange(fc.slices) :
                /\ slc.uid = t.uid
                /\ t.exit_reason = C32_Check(fc'.bar, slc)

\* C32: in forward_compound.run the exit_reason of every trade record names
\* the check that closed the slice: 'stop' iff the stop check fired, 'target'
\* iff the target check fired, '24h_auto' iff the time check fired.
C32_ReasonNamesCheck == [][C32_Step]_vars

(***************************************************************************)
(* Positions opened and trades recorded by backtest.run                    *)
(***************************************************************************)
\* C33: in backtest.run every position that is opened yields exactly one
\* trade record: at the end of a run that was not cut by the cap, trade_count
\* equals the number of trade records.
C33_OpenedIsRecorded ==
    (mode = "bt" /\ bt.pc = "done" /\ Len(bt.trades) < BT_TRADE_CAP) =>
        bt.trade_count = Len(bt.trades)

(***************************************************************************)
(* The side of a backtest.run position                                     *)
(***************************************************************************)
\* the side that gives pnl_pct its sign: long for BUY, short otherwise
C34_PnlSide(action) == IF action = "BUY" THEN "long" ELSE "short"

\* the candle a record was opened on
C34_Candle(t) == CHOOSE c \in SeqRange(bt.order) : c.time = t.open_time

\* C34: in backtest.run the side bar_exit uses for the stop / target prices
\* and the hit tests of a position is the side that gives its pnl_pct the
\* sign: long for a BUY signal, short for a SELL signal.
C34_ExitSideIsPnlSide ==
    \A k \in 1..Len(bt.trades) :
        LET t == bt.trades[k]
            r == BT_bar_exit(C34_Candle(t), C34_PnlSide(t.side), t.stop, t.target,
                             t.entry)
        IN  /\ t.exit = r.px
            /\ t.hit_stop = r.hit_stop
            /\ t.pnl_pct = BT_pnl_pct(t.side, t.entry, t.exit)

(***************************************************************************)
(* The signal query of forward_compound.run                                *)
(***************************************************************************)
\* the bar of this step is one on which run asks the provider: no slice is
\* left open after the exits of the bar
C35_Asked == FCStepped /\ FC_flat(FC_kept(fc'.bar, fc.slices))

\* C35: in forward_compound.run every signal query made while flat completes
\* without error: the value get_signal returns is unpacked and the loop
\* reaches the entry decision of the bar.
C35_QueryCompletes == [][C35_Asked => fc'.pc # "raised"]_vars

(***************************************************************************)
(* The position of simulate_trading (daily_sma_cross, sma_cross_no_ai)     *)
(***************************************************************************)
DSCStepped == dsc'.i = dsc.i + 1
DSCNewTrades == SubSeq(dsc'.trades, Len(dsc.trades) + 1, Len(dsc'.trades))

\* the crossover flags of the row of this step
C36_Bull == dsc'.sma_19 > dsc'.sma_29 /\ dsc.sma_19 <= dsc.sma_29
C36_Bear == dsc'.sma_19 < dsc'.sma_29 /\ dsc.sma_19 >= dsc.sma_29

\* the row brings no signal, or a signal in the direction already held
C36_NoNewDirection ==
    \/ ~C36_Bull /\ ~C36_Bear
    \/ C36_Bull /\ dsc.pos = "long"
    \/ C36_Bear /\ dsc.pos = "short"

C36_Step ==
    DSCStepped =>
        /\ dsc.pos # "None" => dsc'.pos \in {"long", "short"}
        /\ C36_NoNewDirection =>
              /\ dsc'.pos = dsc.pos
              /\ dsc'.entry_p = dsc.entry_p
              /\ dsc'.entry_t = dsc.entry_t
              /\ dsc'.trades = dsc.trades
        /\ ~C36_NoNewDirection =>
              /\ dsc'.pos = IF C36_Bull THEN "long" ELSE "short"
              /\ DSCNewTrades = IF dsc.pos = "None" THEN <<>>
                                ELSE <<dsc'.trades[Len(dsc'.trades)]>>
              /\ \A k \in 1..Len(DSCNewTrades) : DSCNewTrades[k].type = dsc.pos

\* consecutive records alternate between 'long' and 'short'
C36_Alternate ==
    \A k \in 1..Len(dsc.trades) :
        /\ dsc.trades[k].type \in {"long", "short"}
        /\ k > 1 => dsc.trades[k].type # dsc.trades[k - 1].type

\* C36: in simulate_trading the position goes from None to long or short and
\* then only alternates: it is never flat again, consecutive trade records
\* alternate between type 'long' and type 'short', and a signal in the
\* direction of the current position changes nothing.
C36_PositionAlternates == [](C36_Alternate) /\ [][C36_Step]_vars

\* three closed positions: two flips and the final exit
C36_Witness ==
    /\ mode = "daily"
    /\ dsc.pc = "done"
    /\ Len(dsc.trades) = 3
    /\ dsc.trades[1].type = dsc.trades[3].type

(***************************************************************************)
(* No look-ahead in 45pair_sma.batch_loop                                  *)
(***************************************************************************)
\* the crossover at element k of the series (bar k - 1), from the closes up
\* to it: 1 upwards, -1 downwards, 0 none; both averages must exist on the
\* element and on the one before it
C37_Cross(q, f, s, k) ==
    IF k - 1 < s THEN 0
    ELSE IF C27_Diff(q, f, s, k - 1) <= 0 /\ C27_Diff(q, f, s, k) > 0 THEN 1
    ELSE IF C27_Diff(q, f, s, k - 1) >= 0 /\ C27_Diff(q, f, s, k) < 0 THEN -1
    ELSE 0

\* C37: no look-ahead in batch_loop: the position applied to the return from
\* bar i to bar i + 1 is the state given by the crossovers at bars 1..i only
\* (the position vector of a series is that of each of its prefixes); the
\* state is carried unchanged between crossovers, is 0 at bar 0 and before the
\* first crossover, and never returns to 0 after it.
C37_NoLookAhead ==
    bl.fn = "batch_loop" =>
        LET n == Len(bl.close)
        IN  /\ Len(bl.pos) = n
            /\ n >= 1 => bl.pos[1] = 0
            /\ \A k \in 2..n :
                  /\ bl.pos[k] = IF C37_Cross(bl.close, bl.f, bl.s, k) # 0
                                 THEN C37_Cross(bl.close, bl.f, bl.s, k)
                                 ELSE bl.pos[k - 1]
                  /\ bl.pos[k - 1] # 0 => bl.pos[k] # 0
            /\ \A m \in 0..n :
                  BL_pos(SubSeq(bl.close, 1, m), bl.f, bl.s) = SubSeq(bl.pos, 1, m)
            /\ Len(bl.strat) = IF n = 0 THEN 0 ELSE n - 1
            /\ \A k \in 1..Len(bl.strat) :
                  /\ bl.strat[k].pos = bl.pos[k]
                  /\ bl.strat[k].log_r = [from |-> bl.close[k], to |-> bl.close[k + 1]]

\* flat until the first crossover, long, then short and carried
C37_Witness ==
    /\ bl.fn = "batch_loop"
    /\ bl.pos = <<0, 0, 1, -1, -1>>

(***************************************************************************)
(* Equity and drawdown of simulate_trading (daily_sma_cross)               *)
(***************************************************************************)
\* C38: in simulate_trading, for every series of positive prices, the equity
\* is strictly positive after every trade and max_dd stays within [0, 100]
\* percent.
C38_EquityPositive ==
    /\ \A k \in 1..Len(dsc.equity) : RGt(dsc.equity[k], Zero)
    /\ \A k \in 1..Len(dsc.trades) : RGt(dsc.trades[k].equity_after, Zero)
    /\ RGe(dsc.max_dd, Zero)
    /\ RLe(dsc.max_dd, R(100))

====
